---- MODULE Spec2Model ----
(***************************************************************************)
(* Model of the free-search aggregation services:                          *)
(*   SearchService            (facade, services/searchService.js)          *)
(*   PuppeteerSearchService   (browser automation provider glue)           *)
(* A search fans a query out to providers, merges, deduplicates and ranks  *)
(* what comes back, caches it (node-cache, stdTTL 300) and writes a        *)
(* history row.  Fan-out legs of the request in progress settle one at a   *)
(* time in any order; a call a leg makes into PuppeteerSearchService runs  *)
(* as one step of that leg.                                                *)
(***************************************************************************)
EXTENDS Bags, FiniteSets, Integers, Sequences, TLC

(***************************************************************************)
(* Bounds of the model.                                                     *)
(***************************************************************************)
MaxRequests == 2      \* top-level search() calls in one behaviour
MaxTime == 2          \* clock ticks (of TickSeconds each) in one behaviour
MaxFaults == 3        \* provider failures and history-write errors in a behaviour
                      \* of one request
MaxRepeatFaults == 1  \* the same, in a behaviour of more than one request

(***************************************************************************)
(* Inputs the requests are drawn from.                                      *)
(***************************************************************************)
Queries == {"q"}
PageNumbers == {1}
SafeFlags == {TRUE}
EngineSelectors == {"default", "all", "bing"}

(***************************************************************************)
(* Engine tables.                                                           *)
(***************************************************************************)
\* Object.keys(this.searchEngines) of PuppeteerSearchService, in key order.
PuppeteerEngineKeys ==
  <<"google", "bing", "duckduckgo", "yahoo", "brave", "startpage", "searx",
    "qwant", "ecosia", "swisscows", "mojeek", "yandex", "baidu", "naver",
    "seznam">>

\* Object.keys(this.searchEngines) of SearchService, in key order.
LegacyEngineKeys == <<"google", "bing", "duckduckgo", "yahoo", "brave">>

\* The engines whose providers the model lets answer; the fan-outs run over
\* the tables restricted to these, key order kept.
ModelledEngines == {"google", "bing", "searx", "ecosia"}

IsModelled(e) == e \in ModelledEngines

puppeteerSearchEngines == SelectSeq(PuppeteerEngineKeys, IsModelled)

legacySearchEngines == SelectSeq(LegacyEngineKeys, IsModelled)

defaultPuppeteerEngines == <<"searx", "bing", "ecosia">>

SeqRange(s) == {s[i] : i \in 1..Len(s)}

\* const enginePriority = {...} of PuppeteerSearchService.deduplicateResults
PuppeteerEnginePriority ==
  [bing |-> 1, google |-> 2, duckduckgo |-> 3, yahoo |-> 4, brave |-> 5,
   startpage |-> 6, searx |-> 7, qwant |-> 8, ecosia |-> 9, swisscows |-> 10,
   mojeek |-> 11, yandex |-> 12, baidu |-> 13, naver |-> 14, seznam |-> 15]

PuppeteerUnknownPriority == 16

\* const enginePriority = {...} of SearchService.deduplicateResults
SearchEnginePriority ==
  [bing |-> 1, google |-> 2, duckduckgo |-> 3, brave |-> 4, yahoo |-> 5]

SearchUnknownPriority == 6

\* const enginePriority = {...} of SearchScraperService.deduplicateResults
ScraperEnginePriority ==
  [bing |-> 1, google |-> 2, duckduckgo |-> 3, yahoo |-> 4, aol |-> 5, ask |-> 6]

ScraperUnknownPriority == 7

ScraperPriorityTable ==
  [map |-> ScraperEnginePriority, unknown |-> ScraperUnknownPriority]

PuppeteerPriorityTable ==
  [map |-> PuppeteerEnginePriority, unknown |-> PuppeteerUnknownPriority]

SearchPriorityTable ==
  [map |-> SearchEnginePriority, unknown |-> SearchUnknownPriority]

\* enginePriority[r.engine] || unknown
PriorityOf(table, e) ==
  IF e \in DOMAIN table.map THEN table.map[e] ELSE table.unknown

(***************************************************************************)
(* Results.  A result is the object the services pass around; a field the  *)
(* JavaScript object does not have is NoEngine / NoRank.                    *)
(***************************************************************************)
NoEngine == "undefined"
NoRank == 0

LongSnippet == "a very long descriptive snippet"

MkDoc(t, u, s) == [title |-> t, url |-> u, snippet |-> s]

\* The result elements on the page of engine e when it answers with
\* results; bing's second element has no title link, ecosia's second
\* element spells the title of a.com in lower case.
ProviderPage(e) ==
  CASE e = "google" -> <<MkDoc("A", "a.com", "short")>>
    [] e = "bing" -> <<MkDoc("A", "a.com", LongSnippet), MkDoc("", "", "short"),
                       MkDoc("B", "b.com", "short")>>
    [] e = "searx" -> <<MkDoc("B", "b.com", LongSnippet)>>
    [] e = "ecosia" -> <<MkDoc("C", "c.com", "short"), MkDoc("a", "a.com", "short")>>
    [] OTHER -> <<MkDoc("C", "c.com", LongSnippet)>>

RECURSIVE ExtractFrom(_, _, _, _)
\* resultElements.forEach((element, index) => { if (title && url ...) push })
\* with rank start + index + 1 (index counted from 0) and the engine field
ExtractFrom(page, i, start, engine) ==
  IF i > Len(page) THEN <<>>
  ELSE (IF page[i].title # "" /\ page[i].url # ""
        THEN <<[title |-> page[i].title, url |-> page[i].url,
                snippet |-> page[i].snippet, rank |-> start + i,
                engine |-> engine, original_rank |-> NoRank]>>
        ELSE <<>>)
       \o ExtractFrom(page, i + 1, start, engine)

\* extractedResults of PuppeteerSearchService.searchSingleEngine: rank is
\* index + 1, no engine field.
PuppeteerExtract(e) == ExtractFrom(ProviderPage(e), 1, 0, NoEngine)

\* results of SearchService.searchBing and its siblings: rank is
\* start + index + 1 with start = (page - 1) * 10, engine is set.
LegacyScrape(e, page) == ExtractFrom(ProviderPage(e), 1, (page - 1) * 10, e)

\* results.map(result => ({...result, engine: engineName, original_rank: result.rank}))
Enhance(results, engineName) ==
  [i \in 1..Len(results) |->
     [results[i] EXCEPT !.engine = engineName, !.original_rank = results[i].rank]]

(***************************************************************************)
(* Deduplication and ranking.                                               *)
(***************************************************************************)
\* const key = `${result.url}-${result.title}`
DedupKey(r) == r.url \o "-" \o r.title

RECURSIVE FirstOccurrences(_, _)
\* the for loop over results with the `seen` set
FirstOccurrences(results, seen) ==
  IF results = <<>> THEN <<>>
  ELSE IF DedupKey(Head(results)) \in seen
       THEN FirstOccurrences(Tail(results), seen)
       ELSE <<Head(results)>> \o
            FirstOccurrences(Tail(results), seen \cup {DedupKey(Head(results))})

\* a.snippet && a.snippet.length > 20
HasSnippet(r) == r.snippet # "" /\ Len(r.snippet) > 20

\* A comparator that looks at original_rank before the engine priority.
CompareRankFirst(a, b, table) ==
  IF HasSnippet(a) /\ ~HasSnippet(b) THEN -1
  ELSE IF ~HasSnippet(a) /\ HasSnippet(b) THEN 1
  ELSE IF a.original_rank # b.original_rank
       THEN a.original_rank - b.original_rank
  ELSE PriorityOf(table, a.engine) - PriorityOf(table, b.engine)

\* The sort comparator: negative, zero or positive.
Compare(a, b, table) ==
  IF HasSnippet(a) /\ ~HasSnippet(b) THEN -1
  ELSE IF ~HasSnippet(a) /\ HasSnippet(b) THEN 1
  ELSE IF PriorityOf(table, a.engine) # PriorityOf(table, b.engine)
       THEN PriorityOf(table, a.engine) - PriorityOf(table, b.engine)
  ELSE a.original_rank - b.original_rank

RECURSIVE InsertBeforeTies(_, _, _)
\* An insertion that puts r in front of the elements it compares equal to.
InsertBeforeTies(sorted, r, table) ==
  IF sorted = <<>> THEN <<r>>
  ELSE IF Compare(r, Head(sorted), table) <= 0 THEN <<r>> \o sorted
       ELSE <<Head(sorted)>> \o InsertBeforeTies(Tail(sorted), r, table)

RECURSIVE InsertSorted(_, _, _)
InsertSorted(sorted, r, table) ==
  IF sorted = <<>> THEN <<r>>
  ELSE IF Compare(r, Head(sorted), table) < 0 THEN <<r>> \o sorted
       ELSE <<Head(sorted)>> \o InsertSorted(Tail(sorted), r, table)

RECURSIVE StableSort(_, _)
\* Array.prototype.sort is stable: equal elements keep their input order.
StableSort(results, table) ==
  IF results = <<>> THEN <<>>
  ELSE InsertSorted(StableSort(SubSeq(results, 1, Len(results) - 1), table),
                    results[Len(results)], table)

PuppeteerDeduplicateResults(results) ==
  StableSort(FirstOccurrences(results, {}), PuppeteerPriorityTable)

SearchDeduplicateResults(results) ==
  StableSort(FirstOccurrences(results, {}), SearchPriorityTable)

ScraperDeduplicateResults(results) ==
  StableSort(FirstOccurrences(results, {}), ScraperPriorityTable)

\* deduplicatedResults.slice(0, cap), then rank = index + 1
SliceAndRank(results, cap) ==
  [i \in 1..(IF Len(results) < cap THEN Len(results) ELSE cap) |->
     [results[i] EXCEPT !.rank = i]]

DefaultCap == 15      \* SearchService.searchDefaultEngines
LegacyAllCap == 15    \* SearchService.searchAllEngines
PuppeteerAllCap == 20 \* PuppeteerSearchService.searchAllEngines

(***************************************************************************)
(* The caches: new NodeCache({ stdTTL: 300 }), one per service module.     *)
(* A cache is a function from the keys it holds to [v: value, t: expiry].  *)
(***************************************************************************)
StdTTL == 300         \* seconds
TickSeconds == 300    \* seconds one clock tick of the model advances

\* `${value}` in a template literal: true / false for a boolean, the digits
\* for a number (preferences.safe_search read back from sqlite is 0 or 1)
BoolStr(b) ==
  CASE ToString(b) = "TRUE" -> "true"
    [] ToString(b) = "FALSE" -> "false"
    [] OTHER -> ToString(b)

\* node-cache _check: an entry is expired when its expiry time is before now.
Expired(entry, t) == entry.t < t

\* cache.get(key) !== undefined
CacheHas(c, k, t) == k \in DOMAIN c /\ ~Expired(c[k], t)

\* cache.get(key), for a key CacheHas
CacheGet(c, k) == c[k].v

\* get() deletes the entry it finds expired.
CacheAfterGet(c, k, t) ==
  IF k \in DOMAIN c /\ Expired(c[k], t)
  THEN [x \in DOMAIN c \ {k} |-> c[x]]
  ELSE c

\* cache.set(key, value)
CacheSet(c, k, v, t) ==
  [x \in DOMAIN c \cup {k} |-> IF x = k THEN [v |-> v, t |-> t + StdTTL] ELSE c[x]]

EmptyCache == [x \in {} |-> [v |-> <<>>, t |-> 0]]

\* `${engine}:${query}:${page}:${safe}:${usePuppeteer}` in SearchService.search
SearchCacheKey(engine, query, page, safe, usePuppeteer) ==
  engine \o ":" \o query \o ":" \o ToString(page) \o ":" \o BoolStr(safe)
    \o ":" \o BoolStr(usePuppeteer)

\* `default:${query}:${page}:${safe}:true` in SearchService.searchDefaultEngines
DefaultCacheKey(query, page, safe) ==
  "default:" \o query \o ":" \o ToString(page) \o ":" \o BoolStr(safe) \o ":true"

\* `all:${query}:${page}:${safe}` in SearchService.searchAllEngines
LegacyAllCacheKey(query, page, safe) ==
  "all:" \o query \o ":" \o ToString(page) \o ":" \o BoolStr(safe)

\* `puppeteer:${engine}:${query}:${page}:${safe}` in PuppeteerSearchService.search
PuppeteerCacheKey(engine, query, page, safe) ==
  "puppeteer:" \o engine \o ":" \o query \o ":" \o ToString(page) \o ":" \o BoolStr(safe)

\* `puppeteer:all:${query}:${page}:${safe}` in PuppeteerSearchService.searchAllEngines
PuppeteerAllCacheKey(query, page, safe) ==
  "puppeteer:all:" \o query \o ":" \o ToString(page) \o ":" \o BoolStr(safe)

(***************************************************************************)
(* History: the search_history table, a bag of rows.                        *)
(* saveSearchHistory ends in one of two ways (database.getDb() cannot      *)
(* throw once the server listens):                                          *)
(*   "ok"    the row is inserted and the promise resolves;                  *)
(*   "dberr" db.run reports an error and the returned promise rejects.      *)
(***************************************************************************)
HistoryOutcomes == {"ok", "dberr"}

HistoryRow(query, resultsCount, engine) ==
  [query |-> query, results_count |-> resultsCount, search_engine |-> engine]

\* the table after saveSearchHistory(query, resultsCount, engine, userIp)
saveSearchHistory(table, query, resultsCount, engine, h) ==
  IF h = "ok" THEN table (+) SetToBag({HistoryRow(query, resultsCount, engine)})
  ELSE table

\* whether the promise of saveSearchHistory rejects
SaveRejects(h) == h = "dberr"

(***************************************************************************)
(* Provider legs.  A call of a provider ends in one of:                     *)
(*   "throw" initBrowser()/browser.newPage() rejects (Puppeteer only), the  *)
(*           call rejects;                                                  *)
(*   "error" navigation or extraction fails, the catch returns [];          *)
(*   "empty" the provider answers and has no results, [] is returned;       *)
(*   "page"  the provider answers with ProviderPage.                        *)
(***************************************************************************)
PuppeteerOutcomes == {"throw", "error", "empty", "page"}
LegacyOutcomes == {"error", "empty", "page"}

Answered(o) == o \in {"empty", "page"}

\* what an outcome takes from the fault budget of the behaviour
Cost(o) == IF o \in {"throw", "error", "dberr"} THEN 1 ELSE 0

\* what PuppeteerSearchService.searchSingleEngine returns when it returns
SingleEngineResults(e, o) == IF o = "page" THEN PuppeteerExtract(e) ELSE <<>>

\* what SearchService.searchEngines[e] returns (the scrapers never reject)
LegacyEngineResults(e, page, o) == IF o = "page" THEN LegacyScrape(e, page) ELSE <<>>

\* One leg body of a searchAllEngines fan-out finishing: results with
\* length > 0 are pushed to allResults and the engine to workingEngines.
LegPush(acc, engineName, results) ==
  IF Len(results) > 0
  THEN [allResults |-> acc.allResults \o Enhance(results, engineName),
        workingEngines |-> Append(acc.workingEngines, engineName)]
  ELSE acc

EmptyAcc == [allResults |-> <<>>, workingEngines |-> <<>>]

RECURSIVE PushInOrder(_, _, _, _)
\* the legs of a Puppeteer fan-out finishing in the order `order`
PushInOrder(acc, world, order, k) ==
  IF k > Len(order) THEN acc
  ELSE PushInOrder(
         LegPush(acc, puppeteerSearchEngines[order[k]],
                 SingleEngineResults(puppeteerSearchEngines[order[k]], world[order[k]])),
         world, order, k + 1)

\* 'unknown' when no engine worked
BestEngine(workingEngines, none) ==
  IF Len(workingEngines) > 0 THEN workingEngines[1] ELSE none

\* PuppeteerSearchService.searchAllEngines from the fan-out to finalResults
PuppeteerAllFinal(acc) ==
  SliceAndRank(PuppeteerDeduplicateResults(acc.allResults), PuppeteerAllCap)

\* The fan-outs a leg of searchDefaultEngines falls back to (a fan-out inside
\* a leg, run as part of that leg's step) are explored for the worlds in
\* which every provider gives the same outcome, the legs finishing in the
\* order of NestedOrders; a failing world takes one fault from the budget.
NestedWorlds ==
  {[i \in 1..Len(puppeteerSearchEngines) |-> o] : o \in PuppeteerOutcomes}

NestedOrders == {[i \in 1..Len(puppeteerSearchEngines) |-> i]}

PuppeteerAllRuns ==
  {LET acc == PushInOrder(EmptyAcc, world, order, 1) IN
     [results |-> PuppeteerAllFinal(acc),
      best |-> BestEngine(acc.workingEngines, "unknown"),
      answered |-> \E i \in DOMAIN world : Answered(world[i]),
      faults |-> Cost(world[1])] :
   world \in NestedWorlds,
   order \in NestedOrders}

(***************************************************************************)
(* Bookkeeping of one request (not program state): how often each engine's *)
(* provider was invoked, whether any provider answered, whether a cache    *)
(* served a value, which tiers ran.                                         *)
(***************************************************************************)
NoCalls == [e \in ModelledEngines |-> 0]

AddCall(c, e) == [c EXCEPT ![e] = @ + 1]

AddCalls(c, d) == [e \in ModelledEngines |-> c[e] + d[e]]

FanOutCalls(engines) ==
  [e \in ModelledEngines |-> IF e \in SeqRange(engines) THEN 1 ELSE 0]

(***************************************************************************)
(* PuppeteerSearchService.search run as one step (a leg of                  *)
(* SearchService.searchDefaultEngines): the set of all the ways the call    *)
(* can end from the given cache and history table.                          *)
(***************************************************************************)
\* PuppeteerSearchService.searchAllEngines(query, { page, safe, userIp });
\* `left` is what is left of the fault budget.
PuppeteerSearchAllEnginesCall(pc, table, query, page, safe, t, left) ==
  UNION {
    {[threw |-> SaveRejects(h),
      results |-> IF SaveRejects(h) THEN <<>> ELSE run.results,
      pcache |-> CacheSet(pc, PuppeteerAllCacheKey(query, page, safe), run.results, t),
      history |-> saveSearchHistory(table, query, Len(run.results), run.best, h),
      calls |-> FanOutCalls(puppeteerSearchEngines),
      answered |-> run.answered, failed |-> run.faults > 0,
      hit |-> FALSE, primary |-> "all", fellBack |-> FALSE,
      saveFailed |-> SaveRejects(h), saveFellBack |-> FALSE,
      tiers |-> {"puppeteer-all"},
      faults |-> run.faults + Cost(h)] :
     h \in {x \in HistoryOutcomes : Cost(x) + run.faults <= left}} :
    run \in {x \in PuppeteerAllRuns : x.faults <= left}}

\* the catch block of PuppeteerSearchService.search; the provider outcome
\* was o, saveSearchHistory ended with h, and the try block spent `spent`
\* of the fault budget
PuppeteerSearchCatch(pc, table, query, engine, page, safe, fallback, t, left, o, h, spent) ==
  IF fallback
  THEN {[r EXCEPT !.calls = AddCall(@, engine),
                  !.answered = @ \/ Answered(o),
                  !.failed = @ \/ Cost(o) > 0,
                  !.primary = o, !.fellBack = TRUE,
                  !.saveFailed = @ \/ SaveRejects(h),
                  !.saveFellBack = SaveRejects(h),
                  !.tiers = @ \cup {"puppeteer-single"},
                  !.faults = @ + spent] :
        r \in PuppeteerSearchAllEnginesCall(pc, table, query, page, safe, t,
                                            left - spent)}
  ELSE {[threw |-> TRUE, results |-> <<>>, pcache |-> pc, history |-> table,
         calls |-> AddCall(NoCalls, engine), answered |-> Answered(o),
         failed |-> Cost(o) > 0,
         hit |-> FALSE, primary |-> o, fellBack |-> FALSE,
         saveFailed |-> SaveRejects(h), saveFellBack |-> FALSE,
         tiers |-> {"puppeteer-single"}, faults |-> spent]}

\* the try block of PuppeteerSearchService.search for one provider outcome
PuppeteerSearchTry(pc, table, query, engine, page, safe, fallback, t, left, o) ==
  IF Cost(o) > left THEN {}
  ELSE IF o = "throw" \/ engine \notin SeqRange(PuppeteerEngineKeys)
  THEN PuppeteerSearchCatch(pc, table, query, engine, page, safe, fallback, t, left,
                            "throw", "ok", 1)
  ELSE LET results == SingleEngineResults(engine, o)
           pc2 == CacheSet(pc, PuppeteerCacheKey(engine, query, page, safe), results, t)
       IN UNION {
            IF Cost(o) + Cost(h) > left THEN {}
            ELSE IF SaveRejects(h)
            THEN PuppeteerSearchCatch(pc2, table, query, engine, page, safe,
                                      fallback, t, left, o, h, Cost(o) + Cost(h))
            ELSE {[threw |-> FALSE, results |-> results, pcache |-> pc2,
                   history |-> saveSearchHistory(table, query, Len(results), engine, h),
                   calls |-> AddCall(NoCalls, engine), answered |-> Answered(o),
                   failed |-> Cost(o) > 0,
                   hit |-> FALSE, primary |-> o, fellBack |-> FALSE,
                   saveFailed |-> FALSE, saveFellBack |-> FALSE,
                   tiers |-> {"puppeteer-single"}, faults |-> Cost(o)]} :
            h \in HistoryOutcomes}

\* PuppeteerSearchService.search(query, { engine, page, safe, userIp, fallback })
PuppeteerSearchCall(pc, table, query, engine, page, safe, fallback, t, left) ==
  LET cacheKey == PuppeteerCacheKey(engine, query, page, safe)
      pc1 == CacheAfterGet(pc, cacheKey, t)
  IN IF CacheHas(pc, cacheKey, t)
     THEN {[threw |-> SaveRejects(h),
            results |-> IF SaveRejects(h) THEN <<>> ELSE CacheGet(pc, cacheKey),
            pcache |-> pc,
            history |-> saveSearchHistory(table, query, Len(CacheGet(pc, cacheKey)),
                                          engine, h),
            calls |-> NoCalls, answered |-> FALSE, failed |-> FALSE, hit |-> TRUE,
            primary |-> "hit", fellBack |-> FALSE,
            saveFailed |-> SaveRejects(h), saveFellBack |-> FALSE,
            tiers |-> {}, faults |-> Cost(h)] :
           h \in {x \in HistoryOutcomes : Cost(x) <= left}}
     ELSE IF engine = "all"
     THEN PuppeteerSearchAllEnginesCall(pc1, table, query, page, safe, t, left)
     ELSE UNION {PuppeteerSearchTry(pc1, table, query, engine, page, safe, fallback, t,
                                    left, o) :
                 o \in PuppeteerOutcomes}

(***************************************************************************)
(* State.                                                                   *)
(***************************************************************************)
VARIABLES
  now,       \* the clock, in seconds
  cache,     \* the node-cache of the SearchService module
  pcache,    \* the node-cache of the PuppeteerSearchService module
  history,   \* the search_history table
  pc,        \* where the request in progress stands
  req,       \* the options of the request in progress
  fan,       \* the fan-out in progress: its legs and what they returned
  resp,      \* what search() handed to its caller
  nreq,      \* requests started so far
  faults,    \* provider failures and history-write errors so far
  book,      \* bookkeeping of the request in progress
  last,      \* bookkeeping of the request before it
  prefs,     \* the client's row of the user_preferences table
  http,      \* the HTTP request being answered, as the route received it
  scache,    \* the node-cache of the SearchScraperService module
  chrome,    \* the browsers and pages of the PuppeteerSearchService module
  boot       \* the database module and the start of the server

vars ==
  <<now, cache, pcache, history, pc, req, fan, resp, nreq, faults, book, last, prefs,
    http, scache, chrome, boot>>

TableNames == {"search_history", "search_results", "user_preferences"}

\* the process once init() has resolved and the server listens
Booted ==
  [db |-> TRUE, opened |-> TRUE, init |-> "resolved",
   tables |-> [t \in TableNames |-> "created"], completed |-> 3,
   server |-> "listening", got |-> "none"]

\* this.browser = null, nothing launched, no page open
NoChrome ==
  [browser |-> 0, launched |-> 0, alive |-> {}, pages |-> {}, legs |-> <<>>,
   closed |-> FALSE]

NoReq ==
  [query |-> "", engine |-> "", page |-> 0, safe |-> FALSE, fallback |-> FALSE,
   usePuppeteer |-> FALSE]

NoFan ==
  [tier |-> "none", engines |-> <<>>, out |-> <<>>, res |-> <<>>, acc |-> EmptyAcc,
   fell |-> {}]

NoResp == [status |-> "none", results |-> <<>>]

NoBook ==
  [calls |-> NoCalls, answered |-> FALSE, failed |-> FALSE, hit |-> FALSE,
   tiers |-> {}, single |-> "none", saveFailed |-> FALSE, saveFellBack |-> FALSE,
   fellBack |-> FALSE]

NoLast ==
  [req |-> NoReq, status |-> "none", hit |-> FALSE, time |-> 0, cleared |-> FALSE]

\* no row for the client in user_preferences
NoPrefs ==
  [stored |-> FALSE, default_search_engine |-> "", results_per_page |-> 0,
   safe_search |-> TRUE, use_puppeteer |-> TRUE]

\* a parameter or body field the request does not carry
NoParam == "<absent>"

NoHttp ==
  [route |-> "none", q |-> NoParam, engine |-> NoParam, page |-> NoParam,
   rpp |-> NoParam, engines |-> <<>>]

Requests ==
  [query : Queries, engine : EngineSelectors, page : PageNumbers, safe : SafeFlags,
   fallback : BOOLEAN, usePuppeteer : BOOLEAN]

Init ==
  /\ now = 0
  /\ cache = EmptyCache
  /\ pcache = EmptyCache
  /\ history = EmptyBag
  /\ pc = "idle"
  /\ req = NoReq
  /\ fan = NoFan
  /\ resp = NoResp
  /\ nreq = 0
  /\ faults = 0
  /\ book = NoBook
  /\ last = NoLast
  /\ prefs = NoPrefs
  /\ http = NoHttp
  /\ scache = EmptyCache
  /\ chrome = NoChrome
  /\ boot = Booted

\* searchPromises = engines.map(async (engineName) => ...): every leg is
\* dispatched, none has settled.
Dispatch(tier, engines) ==
  [tier |-> tier, engines |-> engines,
   out |-> [i \in 1..Len(engines) |-> "pending"],
   res |-> [i \in 1..Len(engines) |-> <<>>],
   acc |-> EmptyAcc, fell |-> {}]

Ok(results) == [status |-> "ok", results |-> results]

Failed == [status |-> "error", results |-> <<>>]

\* what the caller gets once saveSearchHistory has settled with h
AfterSave(results, h) == IF SaveRejects(h) THEN Failed ELSE Ok(results)

\* searchWithPuppeteer passes { engine, page, safe, userIp } and no fallback,
\* so PuppeteerSearchService.search runs with its default fallback = true.
PuppeteerFallback(r) == TRUE

(***************************************************************************)
(* SearchService.search: from the call to the first await that can take    *)
(* time (a provider call or a fan-out).                                     *)
(***************************************************************************)
\* The fault budget: MaxFaults while the behaviour has one request,
\* MaxRepeatFaults once it has more.
FaultLimitOf(n) == IF n <= 1 THEN MaxFaults ELSE MaxRepeatFaults

FaultLimit == FaultLimitOf(nreq)

Starts(r) ==
  /\ pc = "idle"
  /\ nreq < MaxRequests
  /\ faults <= MaxRepeatFaults
  /\ req' = r
  /\ nreq' = nreq + 1
  /\ UNCHANGED <<boot, chrome, prefs, http, scache, now, last>>

RequestKey(r) == SearchCacheKey(r.engine, r.query, r.page, r.safe, r.usePuppeteer)

Misses(r) ==
  /\ ~CacheHas(cache, RequestKey(r), now)
  /\ cache' = CacheAfterGet(cache, RequestKey(r), now)

\* if (cached) { await this.saveSearchHistory(...); return cached; }
RequestHit(r, h) ==
  /\ Starts(r)
  /\ CacheHas(cache, RequestKey(r), now)
  /\ history' = saveSearchHistory(history, r.query,
                                  Len(CacheGet(cache, RequestKey(r))), r.engine, h)
  /\ resp' = AfterSave(CacheGet(cache, RequestKey(r)), h)
  /\ pc' = "done"
  /\ book' = [NoBook EXCEPT !.hit = TRUE, !.saveFailed = SaveRejects(h)]
  /\ faults + Cost(h) <= FaultLimitOf(nreq + 1)
  /\ faults' = faults + Cost(h)
  /\ UNCHANGED <<boot, chrome, prefs, http, scache, cache, pcache, fan>>

\* usePuppeteer, engine === 'default': searchWithPuppeteer -> searchDefaultEngines
RequestDefault(r) ==
  /\ Starts(r)
  /\ Misses(r)
  /\ r.usePuppeteer /\ r.engine = "default"
  /\ fan' = Dispatch("default", defaultPuppeteerEngines)
  /\ pc' = "fanout"
  /\ book' = [NoBook EXCEPT !.tiers = {"default"}]
  /\ resp' = NoResp
  /\ UNCHANGED <<boot, chrome, prefs, http, scache, pcache, history, faults>>

PuppeteerRequestKey(r) == PuppeteerCacheKey(r.engine, r.query, r.page, r.safe)

\* usePuppeteer, a named engine or 'all', and PuppeteerSearchService.search
\* finds its own cache entry
RequestPuppeteerHit(r, h) ==
  /\ Starts(r)
  /\ Misses(r)
  /\ r.usePuppeteer /\ r.engine # "default"
  /\ CacheHas(pcache, PuppeteerRequestKey(r), now)
  /\ history' = saveSearchHistory(history, r.query,
                                  Len(CacheGet(pcache, PuppeteerRequestKey(r))),
                                  r.engine, h)
  /\ resp' = AfterSave(CacheGet(pcache, PuppeteerRequestKey(r)), h)
  /\ pc' = "done"
  /\ book' = [NoBook EXCEPT !.hit = TRUE, !.saveFailed = SaveRejects(h)]
  /\ faults + Cost(h) <= FaultLimitOf(nreq + 1)
  /\ faults' = faults + Cost(h)
  /\ UNCHANGED <<boot, chrome, prefs, http, scache, pcache, fan>>

\* usePuppeteer, engine === 'all': PuppeteerSearchService.searchAllEngines
RequestPuppeteerAll(r) ==
  /\ Starts(r)
  /\ Misses(r)
  /\ r.usePuppeteer /\ r.engine = "all"
  /\ ~CacheHas(pcache, PuppeteerRequestKey(r), now)
  /\ pcache' = CacheAfterGet(pcache, PuppeteerRequestKey(r), now)
  /\ fan' = Dispatch("puppeteer-all", puppeteerSearchEngines)
  /\ pc' = "fanout"
  /\ book' = [NoBook EXCEPT !.tiers = {"puppeteer-all"},
                            !.calls = FanOutCalls(puppeteerSearchEngines)]
  /\ resp' = NoResp
  /\ UNCHANGED <<boot, chrome, prefs, http, scache, history, faults>>

\* usePuppeteer, a named engine: PuppeteerSearchService.searchSingleEngine
RequestPuppeteerSingle(r) ==
  /\ Starts(r)
  /\ Misses(r)
  /\ r.usePuppeteer /\ r.engine \notin {"default", "all"}
  /\ ~CacheHas(pcache, PuppeteerRequestKey(r), now)
  /\ pcache' = CacheAfterGet(pcache, PuppeteerRequestKey(r), now)
  /\ pc' = "psingle"
  /\ book' = [NoBook EXCEPT !.tiers = {"puppeteer-single"},
                            !.calls = AddCall(NoCalls, r.engine)]
  /\ resp' = NoResp
  /\ UNCHANGED <<boot, chrome, prefs, http, scache, history, fan, faults>>

\* legacy method, engine === 'all': SearchService.searchAllEngines
RequestLegacyAll(r) ==
  /\ Starts(r)
  /\ Misses(r)
  /\ ~r.usePuppeteer /\ r.engine = "all"
  /\ fan' = Dispatch("legacy-all", legacySearchEngines)
  /\ pc' = "fanout"
  /\ book' = [NoBook EXCEPT !.tiers = {"legacy-all"},
                            !.calls = FanOutCalls(legacySearchEngines)]
  /\ resp' = NoResp
  /\ UNCHANGED <<boot, chrome, prefs, http, scache, pcache, history, faults>>

\* legacy method, this.searchEngines[engine] is undefined: the throw lands in
\* the catch block, which falls back to searchWithPuppeteer('default') or
\* rethrows.
RequestLegacyUnsupported(r) ==
  /\ Starts(r)
  /\ Misses(r)
  /\ ~r.usePuppeteer /\ r.engine # "all"
  /\ r.engine \notin SeqRange(LegacyEngineKeys)
  /\ IF r.fallback
     THEN /\ fan' = Dispatch("default", defaultPuppeteerEngines)
          /\ pc' = "fanout"
          /\ book' = [NoBook EXCEPT !.tiers = {"legacy-single", "default"},
                                    !.single = "unsupported",
                                    !.fellBack = TRUE]
          /\ resp' = NoResp
     ELSE /\ fan' = NoFan
          /\ pc' = "done"
          /\ book' = [NoBook EXCEPT !.tiers = {"legacy-single"},
                                    !.single = "unsupported"]
          /\ resp' = Failed
  /\ UNCHANGED <<boot, chrome, prefs, http, scache, pcache, history, faults>>

\* legacy method, a named engine: await searchFunction(query, { page, safe })
RequestLegacySingle(r) ==
  /\ Starts(r)
  /\ Misses(r)
  /\ ~r.usePuppeteer /\ r.engine \in SeqRange(LegacyEngineKeys)
  /\ pc' = "lsingle"
  /\ book' = [NoBook EXCEPT !.tiers = {"legacy-single"},
                            !.calls = AddCall(NoCalls, r.engine)]
  /\ resp' = NoResp
  /\ UNCHANGED <<boot, chrome, prefs, http, scache, pcache, history, fan, faults>>

(***************************************************************************)
(* Single-engine tiers settling.                                            *)
(***************************************************************************)
\* What the request has seen once its single-engine call ended with o and
\* saveSearchHistory with h.
SingleBook(o, h) ==
  [book EXCEPT !.single = o,
               !.answered = Answered(o),
               !.failed = Cost(o) > 0,
               !.saveFailed = SaveRejects(h)]

\* the catch block of PuppeteerSearchService.search at the top of a request:
\* with fallback it starts searchAllEngines, without it rethrows
PuppeteerCatch(o, h) ==
  IF PuppeteerFallback(req)
  THEN /\ fan' = Dispatch("puppeteer-all", puppeteerSearchEngines)
       /\ pc' = "fanout"
       /\ book' = [SingleBook(o, h) EXCEPT
                     !.tiers = @ \cup {"puppeteer-all"},
                     !.calls = AddCalls(@, FanOutCalls(puppeteerSearchEngines)),
                     !.fellBack = TRUE,
                     !.saveFellBack = SaveRejects(h)]
       /\ resp' = NoResp
  ELSE /\ fan' = NoFan
       /\ pc' = "done"
       /\ book' = SingleBook(o, h)
       /\ resp' = Failed

\* PuppeteerSearchService.search, try block: searchSingleEngine settles with
\* o, the results are cached, saveSearchHistory settles with h.
PuppeteerSingleSettle(o, h) ==
  /\ pc = "psingle"
  /\ o \in PuppeteerOutcomes
  /\ h \in HistoryOutcomes
  /\ o = "throw" => h = "ok"
  /\ req.engine \notin SeqRange(PuppeteerEngineKeys) => o = "throw"
  /\ faults + Cost(o) + Cost(h) <= FaultLimit
  /\ faults' = faults + Cost(o) + Cost(h)
  /\ IF o = "throw"
     THEN /\ PuppeteerCatch(o, h)
          /\ UNCHANGED <<boot, chrome, prefs, http, scache, pcache, history>>
     ELSE /\ pcache' = CacheSet(pcache, PuppeteerRequestKey(req),
                                SingleEngineResults(req.engine, o), now)
          /\ IF SaveRejects(h)
             THEN /\ PuppeteerCatch(o, h)
                  /\ UNCHANGED history
             ELSE /\ history' = saveSearchHistory(history, req.query,
                                  Len(SingleEngineResults(req.engine, o)), req.engine, h)
                  /\ resp' = Ok(SingleEngineResults(req.engine, o))
                  /\ pc' = "done"
                  /\ book' = SingleBook(o, h)
                  /\ fan' = NoFan
  /\ UNCHANGED <<boot, chrome, prefs, http, scache, now, cache, req, nreq, last>>

\* the catch block of SearchService.search (legacy method)
LegacyCatch(o, h) ==
  IF req.fallback
  THEN /\ fan' = Dispatch("default", defaultPuppeteerEngines)
       /\ pc' = "fanout"
       /\ book' = [SingleBook(o, h) EXCEPT
                     !.tiers = @ \cup {"default"},
                     !.fellBack = TRUE,
                     !.saveFellBack = SaveRejects(h)]
       /\ resp' = NoResp
  ELSE /\ fan' = NoFan
       /\ pc' = "done"
       /\ book' = SingleBook(o, h)
       /\ resp' = Failed

\* SearchService.search, try block of the legacy method: the scraper settles
\* with o, the results are cached, saveSearchHistory settles with h.
LegacySingleSettle(o, h) ==
  /\ pc = "lsingle"
  /\ o \in LegacyOutcomes
  /\ h \in HistoryOutcomes
  /\ faults + Cost(o) + Cost(h) <= FaultLimit
  /\ faults' = faults + Cost(o) + Cost(h)
  /\ cache' = CacheSet(cache, RequestKey(req),
                       LegacyEngineResults(req.engine, req.page, o), now)
  /\ IF SaveRejects(h)
     THEN /\ LegacyCatch(o, h)
          /\ UNCHANGED history
     ELSE /\ history' = saveSearchHistory(history, req.query,
                          Len(LegacyEngineResults(req.engine, req.page, o)),
                          req.engine, h)
          /\ resp' = Ok(LegacyEngineResults(req.engine, req.page, o))
          /\ pc' = "done"
          /\ book' = SingleBook(o, h)
          /\ fan' = NoFan
  /\ UNCHANGED <<boot, chrome, prefs, http, scache, now, pcache, req, nreq, last>>

(***************************************************************************)
(* Fan-out legs settling, one at a time, in any order.                      *)
(***************************************************************************)
\* Leg i has not settled.  In the first request of a behaviour the legs
\* settle in any order; in a later one the model follows the schedule in
\* which they settle in the order they were dispatched.
Pending(i) ==
  /\ pc = "fanout" /\ i \in DOMAIN fan.out /\ fan.out[i] = "pending"
  /\ nreq > 1 => \A j \in 1..(i - 1) : fan.out[j] # "pending"

\* a leg of SearchService.searchDefaultEngines: the whole call
\* puppeteerSearchService.search(query, { engine: engineName, page, safe, userIp })
\* and the leg's catch, which turns a rejection into [].
DefaultLegSettle(i) ==
  /\ Pending(i)
  /\ fan.tier = "default"
  /\ \E r \in PuppeteerSearchCall(pcache, history, req.query, fan.engines[i],
                                  req.page, req.safe, TRUE, now,
                                  FaultLimit - faults) :
       /\ faults' = faults + r.faults
       /\ pcache' = r.pcache
       /\ history' = r.history
       /\ fan' = [fan EXCEPT
                    !.out[i] = r.primary,
                    !.res[i] = IF r.threw THEN <<>>
                               ELSE Enhance(r.results, fan.engines[i]),
                    !.fell = IF r.fellBack THEN @ \cup {i} ELSE @]
       /\ book' = [book EXCEPT
                    !.calls = AddCalls(@, r.calls),
                    !.answered = @ \/ r.answered,
                    !.failed = @ \/ r.failed,
                    !.hit = @ \/ r.hit,
                    !.tiers = @ \cup r.tiers,
                    !.saveFailed = @ \/ r.saveFailed,
                    !.saveFellBack = @ \/ r.saveFellBack]
  /\ UNCHANGED <<boot, chrome, prefs, http, scache, now, cache, pc, req, resp, nreq, last>>

\* a leg of PuppeteerSearchService.searchAllEngines: searchSingleEngine
\* settles with o; a rejection is caught by the leg.
PuppeteerAllLegSettle(i, o) ==
  /\ Pending(i)
  /\ fan.tier = "puppeteer-all"
  /\ o \in PuppeteerOutcomes
  /\ fan' = [fan EXCEPT
               !.out[i] = o,
               !.res[i] = Enhance(SingleEngineResults(fan.engines[i], o), fan.engines[i]),
               !.acc = LegPush(@, fan.engines[i], SingleEngineResults(fan.engines[i], o))]
  /\ book' = [book EXCEPT !.answered = @ \/ Answered(o), !.failed = @ \/ Cost(o) > 0]
  /\ faults + Cost(o) <= FaultLimit
  /\ faults' = faults + Cost(o)
  /\ UNCHANGED <<boot, chrome, prefs, http, scache, now, cache, pcache, history, pc, req, resp, nreq, last>>

\* a leg of SearchService.searchAllEngines: the scraper settles with o.
LegacyAllLegSettle(i, o) ==
  /\ Pending(i)
  /\ fan.tier = "legacy-all"
  /\ o \in LegacyOutcomes
  /\ fan' = [fan EXCEPT
               !.out[i] = o,
               !.res[i] = Enhance(LegacyEngineResults(fan.engines[i], req.page, o),
                                  fan.engines[i]),
               !.acc = LegPush(@, fan.engines[i],
                               LegacyEngineResults(fan.engines[i], req.page, o))]
  /\ book' = [book EXCEPT !.answered = @ \/ Answered(o), !.failed = @ \/ Cost(o) > 0]
  /\ faults + Cost(o) <= FaultLimit
  /\ faults' = faults + Cost(o)
  /\ UNCHANGED <<boot, chrome, prefs, http, scache, now, cache, pcache, history, pc, req, resp, nreq, last>>

(***************************************************************************)
(* The barrier and the merge.                                               *)
(***************************************************************************)
\* the barrier as it would be were it Promise.race: one settled leg is enough
AnySettled(f) == \E i \in DOMAIN f.out : f.out[i] # "pending"

\* await Promise.allSettled(searchPromises)
AllSettled(f) == \A i \in DOMAIN f.out : f.out[i] # "pending"

RECURSIVE CombineFulfilled(_, _)
\* allResults.forEach((result, index) => { if (... result.value.length > 0) ... })
CombineFulfilled(f, i) ==
  IF i > Len(f.engines) THEN EmptyAcc
  ELSE LET rest == CombineFulfilled(f, i + 1) IN
       IF Len(f.res[i]) > 0
       THEN [allResults |-> f.res[i] \o rest.allResults,
             workingEngines |-> <<f.engines[i]>> \o rest.workingEngines]
       ELSE rest

\* finalResults of SearchService.searchDefaultEngines
DefaultFinal(f) ==
  SliceAndRank(SearchDeduplicateResults(CombineFulfilled(f, 1).allResults), DefaultCap)

\* finalResults of SearchService.searchAllEngines
LegacyAllFinal(acc) ==
  SliceAndRank(SearchDeduplicateResults(acc.allResults), LegacyAllCap)

Merged(results, h) ==
  /\ pc' = "done"
  /\ resp' = AfterSave(results, h)
  /\ book' = [book EXCEPT !.saveFailed = @ \/ SaveRejects(h)]
  /\ faults + Cost(h) <= FaultLimit
  /\ faults' = faults + Cost(h)
  /\ UNCHANGED <<boot, chrome, prefs, http, scache, now, req, fan, nreq, last>>

\* SearchService.searchDefaultEngines after the barrier
DefaultMerge(h) ==
  /\ pc = "fanout" /\ fan.tier = "default"
  /\ AllSettled(fan)
  /\ h \in HistoryOutcomes
  /\ cache' = CacheSet(cache, DefaultCacheKey(req.query, req.page, req.safe),
                       DefaultFinal(fan), now)
  /\ history' = saveSearchHistory(history, req.query, Len(DefaultFinal(fan)),
                  BestEngine(CombineFulfilled(fan, 1).workingEngines, "default"), h)
  /\ Merged(DefaultFinal(fan), h)
  /\ UNCHANGED pcache

\* PuppeteerSearchService.searchAllEngines after the barrier
PuppeteerAllMerge(h) ==
  /\ pc = "fanout" /\ fan.tier = "puppeteer-all"
  /\ AllSettled(fan)
  /\ h \in HistoryOutcomes
  /\ pcache' = CacheSet(pcache, PuppeteerAllCacheKey(req.query, req.page, req.safe),
                        PuppeteerAllFinal(fan.acc), now)
  /\ history' = saveSearchHistory(history, req.query, Len(PuppeteerAllFinal(fan.acc)),
                  BestEngine(fan.acc.workingEngines, "unknown"), h)
  /\ Merged(PuppeteerAllFinal(fan.acc), h)
  /\ UNCHANGED cache

\* SearchService.searchAllEngines after the barrier
LegacyAllMerge(h) ==
  /\ pc = "fanout" /\ fan.tier = "legacy-all"
  /\ AllSettled(fan)
  /\ h \in HistoryOutcomes
  /\ cache' = CacheSet(cache, LegacyAllCacheKey(req.query, req.page, req.safe),
                       LegacyAllFinal(fan.acc), now)
  /\ history' = saveSearchHistory(history, req.query, Len(LegacyAllFinal(fan.acc)),
                  BestEngine(fan.acc.workingEngines, "unknown"), h)
  /\ Merged(LegacyAllFinal(fan.acc), h)
  /\ UNCHANGED pcache

(***************************************************************************)
(* The caller has the response; the next request may start.                 *)
(***************************************************************************)
Respond ==
  /\ pc = "done"
  /\ pc' = "idle"
  /\ last' = [req |-> req, status |-> resp.status, hit |-> book.hit, time |-> now,
               cleared |-> FALSE]
  /\ req' = NoReq
  /\ fan' = NoFan
  /\ resp' = NoResp
  /\ book' = NoBook
  /\ UNCHANGED <<boot, chrome, prefs, http, scache, now, cache, pcache, history, nreq, faults>>

\* SearchService.clearCache (DELETE /api/search/cache): cache.flushAll() on
\* the cache of the SearchService module; `last.cleared` records that it ran
\* since the last response.
ClearCache ==
  /\ pc = "idle"
  /\ nreq > 0
  /\ ~last.cleared
  /\ cache' = EmptyCache
  /\ last' = [last EXCEPT !.cleared = TRUE]
  /\ UNCHANGED <<boot, chrome, prefs, http, scache, now, pcache, history, pc, req, fan, resp, nreq, faults, book>>

\* Time passes between requests.
Tick ==
  /\ pc = "idle"
  /\ nreq > 0
  /\ now < MaxTime * TickSeconds
  /\ now' = now + TickSeconds
  /\ UNCHANGED <<boot, chrome, prefs, http, scache, cache, pcache, history, pc, req, fan, resp, nreq, faults, book, last>>

Next ==
  \/ \E r \in Requests, h \in HistoryOutcomes : RequestHit(r, h)
  \/ \E r \in Requests : RequestDefault(r)
  \/ \E r \in Requests, h \in HistoryOutcomes : RequestPuppeteerHit(r, h)
  \/ \E r \in Requests : RequestPuppeteerAll(r)
  \/ \E r \in Requests : RequestPuppeteerSingle(r)
  \/ \E r \in Requests : RequestLegacyAll(r)
  \/ \E r \in Requests : RequestLegacyUnsupported(r)
  \/ \E r \in Requests : RequestLegacySingle(r)
  \/ \E o \in PuppeteerOutcomes, h \in HistoryOutcomes : PuppeteerSingleSettle(o, h)
  \/ \E o \in LegacyOutcomes, h \in HistoryOutcomes : LegacySingleSettle(o, h)
  \/ \E i \in 1..Len(defaultPuppeteerEngines) : DefaultLegSettle(i)
  \/ \E i \in 1..Len(puppeteerSearchEngines), o \in PuppeteerOutcomes :
       PuppeteerAllLegSettle(i, o)
  \/ \E i \in 1..Len(legacySearchEngines), o \in LegacyOutcomes :
       LegacyAllLegSettle(i, o)
  \/ \E h \in HistoryOutcomes : DefaultMerge(h)
  \/ \E h \in HistoryOutcomes : PuppeteerAllMerge(h)
  \/ \E h \in HistoryOutcomes : LegacyAllMerge(h)
  \/ Respond
  \/ ClearCache
  \/ Tick

Spec == Init /\ [][Next]_vars

(***************************************************************************)
(* The cache keys on their own: one search stores its result, another one  *)
(* looks its key up.  The options are those the route can build: a query   *)
(* may hold a colon, safe is a boolean from the query string or the 0 / 1  *)
(* of the preferences row.                                                  *)
(***************************************************************************)
KeyQueries == {"x", "x:3"}

KeyPages == {1, 3}

KeyRequestsOf(safeFlags) ==
  [query : KeyQueries, engine : EngineSelectors, page : KeyPages, safe : safeFlags,
   fallback : {TRUE}, usePuppeteer : BOOLEAN]

\* safe given in the query string
KeyRequestsQuery == KeyRequestsOf(BOOLEAN)

\* safe taken from the preferences row
KeyRequestsPrefs == KeyRequestsOf({0, 1})

\* whether safe search is on: if (safe) in the scrapers
Truthy(x) == ToString(x) \in {"TRUE", "1"}

\* the request with its safe flag as on / off
Flagged(r) == [r EXCEPT !.safe = Truthy(r.safe)]

\* the search the stored value was computed for
Computed(r) ==
  <<r.engine \o "|" \o r.query \o "|" \o ToString(r.page) \o "|"
      \o BoolStr(Truthy(r.safe)) \o "|" \o BoolStr(r.usePuppeteer)>>

\* the cache.set of the tier that answers r on a miss
KeyStore(r) ==
  /\ pc = "idle"
  /\ pc' = "stored"
  /\ last' = [last EXCEPT !.req = Flagged(r)]
  /\ IF r.usePuppeteer
     THEN IF r.engine = "default"
          THEN /\ cache' = CacheSet(cache, DefaultCacheKey(r.query, r.page, r.safe),
                                    Computed(r), now)
               /\ UNCHANGED pcache
          ELSE /\ pcache' = CacheSet(pcache,
                              IF r.engine = "all"
                              THEN PuppeteerAllCacheKey(r.query, r.page, r.safe)
                              ELSE PuppeteerCacheKey(r.engine, r.query, r.page, r.safe),
                              Computed(r), now)
               /\ UNCHANGED cache
     ELSE /\ cache' = CacheSet(cache,
                        IF r.engine = "all"
                        THEN LegacyAllCacheKey(r.query, r.page, r.safe)
                        ELSE SearchCacheKey(r.engine, r.query, r.page, r.safe, FALSE),
                        Computed(r), now)
          /\ UNCHANGED pcache
  /\ UNCHANGED <<boot, chrome, prefs, http, scache, now, history, req, fan, resp, nreq, faults, book>>

\* the cache.get of SearchService.search and, with usePuppeteer and an
\* engine other than 'default', that of PuppeteerSearchService.search
KeyLookup(r) ==
  /\ pc = "stored"
  /\ pc' = "done"
  /\ req' = Flagged(r)
  /\ IF CacheHas(cache, RequestKey(r), now)
     THEN resp' = Ok(CacheGet(cache, RequestKey(r)))
     ELSE IF /\ r.usePuppeteer /\ r.engine # "default"
             /\ CacheHas(pcache, PuppeteerRequestKey(r), now)
     THEN resp' = Ok(CacheGet(pcache, PuppeteerRequestKey(r)))
     ELSE resp' = NoResp
  /\ book' = [book EXCEPT !.hit = resp'.status = "ok"]
  /\ UNCHANGED <<boot, chrome, prefs, http, scache, now, cache, pcache, history, fan, nreq, faults, last>>

KeyNext ==
  \/ \E r \in KeyRequestsQuery : KeyStore(r)
  \/ \E r \in KeyRequestsPrefs : KeyStore(r)
  \/ \E r \in KeyRequestsQuery : KeyLookup(r)
  \/ \E r \in KeyRequestsPrefs : KeyLookup(r)

KeySpec == Init /\ [][KeyNext]_vars

(***************************************************************************)
(* The deduplication and ranking functions on their own: the input list is  *)
(* what a fan-out hands to deduplicateResults (every result carries the     *)
(* engine of its leg and original_rank = rank), fan.tier names the service  *)
(* whose function is applied, resp holds the function's output.             *)
(***************************************************************************)
MaxInputLen == 3

RankTitles == {"A", "a", "B"}
RankSnippets == {"short", LongSnippet}
RankEngines == {"bing", "google", "searx"}
RankSourceRanks == {1, 2}
RankServices == {"puppeteer", "search", "scraper"}

\* results.map(result => ({...result, engine: engineName, original_rank: result.rank}))
RankDocs ==
  {[title |-> t, url |-> "a.com", snippet |-> sn, rank |-> k, engine |-> e,
    original_rank |-> k] :
     t \in RankTitles, sn \in RankSnippets, e \in RankEngines, k \in RankSourceRanks}

RankInputs == UNION {[1..n -> RankDocs] : n \in 0..MaxInputLen}

\* this.deduplicateResults of the service
DeduplicateResultsOf(service, results) ==
  CASE service = "puppeteer" -> PuppeteerDeduplicateResults(results)
    [] service = "search" -> SearchDeduplicateResults(results)
    [] OTHER -> ScraperDeduplicateResults(results)

PriorityTableOf(service) ==
  CASE service = "puppeteer" -> PuppeteerPriorityTable
    [] service = "search" -> SearchPriorityTable
    [] OTHER -> ScraperPriorityTable

RankInit ==
  /\ now = 0
  /\ cache = EmptyCache
  /\ pcache = EmptyCache
  /\ history = EmptyBag
  /\ pc = "idle"
  /\ req = NoReq
  /\ \E service \in RankServices, input \in RankInputs :
       fan = [NoFan EXCEPT !.tier = service, !.acc.allResults = input]
  /\ resp = NoResp
  /\ nreq = 0
  /\ faults = 0
  /\ book = NoBook
  /\ last = NoLast
  /\ prefs = NoPrefs
  /\ http = NoHttp
  /\ scache = EmptyCache
  /\ chrome = NoChrome
  /\ boot = Booted

\* const deduplicatedResults = this.deduplicateResults(allResults)
RankDeduplicate ==
  /\ pc = "idle"
  /\ pc' = "done"
  /\ resp' = Ok(DeduplicateResultsOf(fan.tier, fan.acc.allResults))
  /\ UNCHANGED <<boot, chrome, prefs, http, scache, now, cache, pcache, history, req, fan, nreq, faults, book, last>>

\* the function applied to its own output; fan.res keeps the first output
RankDeduplicateAgain ==
  /\ pc = "done"
  /\ pc' = "stored"
  /\ fan' = [fan EXCEPT !.res = <<resp.results>>]
  /\ resp' = Ok(DeduplicateResultsOf(fan.tier, resp.results))
  /\ UNCHANGED <<boot, chrome, prefs, http, scache, now, cache, pcache, history, req, nreq, faults, book, last>>

RankNext ==
  \/ RankDeduplicate
  \/ RankDeduplicateAgain

RankSpec == RankInit /\ [][RankNext]_vars

(***************************************************************************)
(* The cap of each tier on its own: fan.acc.allResults is what the legs of  *)
(* the tier delivered (for the single-engine tier: what the provider's page *)
(* yielded), resp is the tier's response.                                   *)
(***************************************************************************)
MaxResults == 21

CapTiers == {"single", "default", "puppeteer-all", "legacy-all"}

\* n different results of one engine in the provider's order
CapInput(n) ==
  [i \in 1..n |->
     [title |-> ToString(i), url |-> "a.com", snippet |-> "short", rank |-> i,
      engine |-> "bing", original_rank |-> i]]

\* the response the tier makes of the results of its legs
CapFinal(tier, acc) ==
  CASE tier = "single" -> acc.allResults
    [] tier = "default" ->
         SliceAndRank(SearchDeduplicateResults(acc.allResults), DefaultCap)
    [] tier = "puppeteer-all" -> PuppeteerAllFinal(acc)
    [] OTHER -> LegacyAllFinal(acc)

CapInit ==
  /\ now = 0
  /\ cache = EmptyCache
  /\ pcache = EmptyCache
  /\ history = EmptyBag
  /\ pc = "idle"
  /\ req = NoReq
  /\ \E tier \in CapTiers, n \in 0..MaxResults :
       fan = [NoFan EXCEPT !.tier = tier, !.acc.allResults = CapInput(n)]
  /\ resp = NoResp
  /\ nreq = 0
  /\ faults = 0
  /\ book = NoBook
  /\ last = NoLast
  /\ prefs = NoPrefs
  /\ http = NoHttp
  /\ scache = EmptyCache
  /\ chrome = NoChrome
  /\ boot = Booted

\* deduplicateResults, slice(0, cap) and the re-ranking of the tier
CapRespond ==
  /\ pc = "idle"
  /\ pc' = "done"
  /\ resp' = Ok(CapFinal(fan.tier, fan.acc))
  /\ UNCHANGED <<boot, chrome, prefs, http, scache, now, cache, pcache, history, req, fan, nreq, faults, book, last>>

CapNext == CapRespond

CapSpec == CapInit /\ [][CapNext]_vars

(***************************************************************************)
(* Waiting for providers.  The full-set fan-out of each of the three        *)
(* services, with providers that may stay silent: a leg whose provider is   *)
(* silent is "silent" until a timeout of the call, if the service sets one, *)
(* turns it into a failure.                                                 *)
(***************************************************************************)
\* Object.keys(this.searchEngines) of SearchScraperService, in key order.
ScraperEngineKeys == <<"google", "bing", "yahoo", "duckduckgo", "aol", "ask">>

scraperSearchEngines == SelectSeq(ScraperEngineKeys, IsModelled)

ScraperAllCap == 15

WaitTiers == {"puppeteer-all", "legacy-all", "scraper-all"}

MaxWaitLegs == 2

FirstLegs(engines) ==
  SubSeq(engines, 1, IF Len(engines) < MaxWaitLegs THEN Len(engines) ELSE MaxWaitLegs)

\* the first MaxWaitLegs engines of the service's table
WaitEngines(tier) ==
  CASE tier = "puppeteer-all" -> FirstLegs(puppeteerSearchEngines)
    [] tier = "legacy-all" -> FirstLegs(legacySearchEngines)
    [] OTHER -> FirstLegs(scraperSearchEngines)

\* The call of the provider carries a timeout: pageInstance.goto(url,
\* {timeout: 30000}) and axios.get(url, {timeout: ...}); SearchScraper.search
\* is called with query, engine, page and safe only.
LegHasTimeout(tier) == tier \in {"puppeteer-all", "legacy-all"}

WaitOutcomes(tier) == IF tier = "puppeteer-all" THEN PuppeteerOutcomes ELSE LegacyOutcomes

\* transformedResults of SearchScraperService.searchSingleEngine
ScraperTransform(e) ==
  [i \in 1..Len(ProviderPage(e)) |->
     [title |-> IF ProviderPage(e)[i].title = "" THEN "No title"
                ELSE ProviderPage(e)[i].title,
      url |-> ProviderPage(e)[i].url,
      snippet |-> ProviderPage(e)[i].snippet,
      rank |-> i, engine |-> e, original_rank |-> NoRank]]

\* what the leg's searchSingleEngine returns for the outcome o
WaitResults(tier, e, page, o) ==
  CASE tier = "puppeteer-all" -> SingleEngineResults(e, o)
    [] tier = "legacy-all" -> LegacyEngineResults(e, page, o)
    [] OTHER -> IF o = "page" THEN ScraperTransform(e) ELSE <<>>

\* `scraper:all:${query}:${page}:${safe}`
ScraperAllCacheKey(query, page, safe) ==
  "scraper:all:" \o query \o ":" \o ToString(page) \o ":" \o BoolStr(safe)

WaitCacheKey(tier, query, page, safe) ==
  CASE tier = "puppeteer-all" -> PuppeteerAllCacheKey(query, page, safe)
    [] tier = "legacy-all" -> LegacyAllCacheKey(query, page, safe)
    [] OTHER -> ScraperAllCacheKey(query, page, safe)

WaitFinal(tier, acc) ==
  CASE tier = "puppeteer-all" -> PuppeteerAllFinal(acc)
    [] tier = "legacy-all" -> LegacyAllFinal(acc)
    [] OTHER -> SliceAndRank(ScraperDeduplicateResults(acc.allResults), ScraperAllCap)

WaitRequest ==
  [query |-> "q", engine |-> "all", page |-> 1, safe |-> TRUE, fallback |-> TRUE,
   usePuppeteer |-> FALSE]

\* searchAllEngines has dispatched every leg
WaitInit ==
  /\ now = 0
  /\ cache = EmptyCache
  /\ pcache = EmptyCache
  /\ history = EmptyBag
  /\ pc = "fanout"
  /\ req = WaitRequest
  /\ \E tier \in WaitTiers : fan = Dispatch(tier, WaitEngines(tier))
  /\ resp = NoResp
  /\ nreq = 1
  /\ faults = 0
  /\ book = NoBook
  /\ last = NoLast
  /\ prefs = NoPrefs
  /\ http = NoHttp
  /\ scache = EmptyCache
  /\ chrome = NoChrome
  /\ boot = Booted

\* the provider of leg i answers (or the call fails) and the leg settles
WaitLegSettle(i, o) ==
  /\ pc = "fanout" /\ i \in DOMAIN fan.out /\ fan.out[i] = "pending"
  /\ o \in WaitOutcomes(fan.tier)
  /\ fan' = [fan EXCEPT
               !.out[i] = o,
               !.res[i] = Enhance(WaitResults(fan.tier, fan.engines[i], req.page, o),
                                  fan.engines[i]),
               !.acc = LegPush(@, fan.engines[i],
                               WaitResults(fan.tier, fan.engines[i], req.page, o))]
  /\ UNCHANGED <<boot, chrome, prefs, http, scache, now, cache, pcache, history, pc, req, resp, nreq, faults, book, last>>

\* the provider of leg i never answers
WaitLegSilent(i) ==
  /\ pc = "fanout" /\ i \in DOMAIN fan.out /\ fan.out[i] = "pending"
  /\ fan' = [fan EXCEPT !.out[i] = "silent"]
  /\ UNCHANGED <<boot, chrome, prefs, http, scache, now, cache, pcache, history, pc, req, resp, nreq, faults, book, last>>

\* the timeout of the call fires: the call rejects, the catch returns []
WaitLegTimeout(i) ==
  /\ pc = "fanout" /\ i \in DOMAIN fan.out /\ fan.out[i] = "silent"
  /\ LegHasTimeout(fan.tier)
  /\ fan' = [fan EXCEPT !.out[i] = "error"]
  /\ UNCHANGED <<boot, chrome, prefs, http, scache, now, cache, pcache, history, pc, req, resp, nreq, faults, book, last>>

\* await Promise.allSettled(searchPromises): a silent leg has not settled
WaitSettled(f) == \A i \in DOMAIN f.out : f.out[i] \notin {"pending", "silent"}

\* searchAllEngines after the barrier
WaitMerge(h) ==
  /\ pc = "fanout"
  /\ WaitSettled(fan)
  /\ h \in HistoryOutcomes
  /\ pc' = "done"
  /\ IF fan.tier = "puppeteer-all"
     THEN /\ pcache' = CacheSet(pcache, WaitCacheKey(fan.tier, req.query, req.page, req.safe),
                                WaitFinal(fan.tier, fan.acc), now)
          /\ UNCHANGED cache
     ELSE /\ cache' = CacheSet(cache, WaitCacheKey(fan.tier, req.query, req.page, req.safe),
                               WaitFinal(fan.tier, fan.acc), now)
          /\ UNCHANGED pcache
  /\ history' = saveSearchHistory(history, req.query, Len(WaitFinal(fan.tier, fan.acc)),
                  BestEngine(fan.acc.workingEngines, "unknown"), h)
  /\ resp' = AfterSave(WaitFinal(fan.tier, fan.acc), h)
  /\ UNCHANGED <<boot, chrome, prefs, http, scache, now, req, fan, nreq, faults, book, last>>

WaitNext ==
  \/ \E i \in 1..MaxWaitLegs, o \in PuppeteerOutcomes : WaitLegSettle(i, o)
  \/ \E i \in 1..MaxWaitLegs : WaitLegSilent(i)
  \/ \E i \in 1..MaxWaitLegs : WaitLegTimeout(i)
  \/ \E h \in HistoryOutcomes : WaitMerge(h)

\* Every step that is possible is eventually taken: a pending call ends one
\* way or the other, a timer that is set fires, the event loop runs the
\* continuation of the barrier.
WaitSpec == WaitInit /\ [][WaitNext]_vars /\ WF_vars(WaitNext)

(***************************************************************************)
(* The HTTP routes.  A request arrives (http), the route validates it and   *)
(* either answers 400 or calls the service.  One search is followed to its  *)
(* response; preference updates may come before it.  Parameters are the     *)
(* strings of the query string or the JSON body; every search request       *)
(* carries safe=true and no usePuppeteer.                                   *)
(***************************************************************************)
\* isIn([...]) of GET /api/search and PUT /api/search/preferences
FacadeAllowedEngines ==
  {"google", "bing", "duckduckgo", "yahoo", "brave", "all", "default"}

\* getAvailableEngines() of PuppeteerSearchService and SearchScraperService
PuppeteerAvailableEngines == SeqRange(PuppeteerEngineKeys) \cup {"all"}

ScraperAvailableEngines == SeqRange(ScraperEngineKeys) \cup {"all"}

\* the numerals the requests of the model carry
IntStrings == {"-1", "0", "1", "10", "11", "100"}

IntOf(s) ==
  CASE s = "-1" -> -1
    [] s = "0" -> 0
    [] s = "1" -> 1
    [] s = "10" -> 10
    [] s = "11" -> 11
    [] OTHER -> 100

\* .optional().isInt({ min: lo, max: hi })
OptionalIntIn(s, lo, hi) ==
  s = NoParam \/ (s \in IntStrings /\ lo <= IntOf(s) /\ IntOf(s) <= hi)

\* parseInt(s) || d and s || d: NaN and 0 are falsy
ParseIntOr(s, d) == IF s \in IntStrings /\ IntOf(s) # 0 THEN IntOf(s) ELSE d

BadRequest == [status |-> "400", results |-> <<>>]

Updated == [status |-> "updated", results |-> <<>>]

SearchGets ==
  [route : {"GET /api/search"}, q : {NoParam, "", "q"},
   engine : {NoParam, "bing", "invalid"}, page : {NoParam, "0", "1", "11"},
   rpp : {NoParam}, engines : {<<>>}]

PreferenceUpdates ==
  [route : {"PUT /api/search/preferences", "POST /api/puppeteer/preferences",
            "POST /api/scraper/preferences"},
   q : {NoParam}, engine : {NoParam, "bing", "aol", "invalid"}, page : {NoParam},
   rpp : {NoParam, "10", "100"}, engines : {<<>>}]

\* a request arrives
RouteReceive(h) ==
  /\ pc = "idle" /\ nreq = 0 /\ http = NoHttp
  /\ http' = h
  /\ UNCHANGED <<boot, chrome, now, cache, pcache, history, pc, req, fan, resp, nreq, faults, book,
                 last, prefs, scache>>

\* SearchService.getUserPreferences: the row, or the defaults of the facade
FacadePreferences(p) ==
  IF p.stored THEN p
  ELSE [stored |-> FALSE, default_search_engine |-> "default", results_per_page |-> 10,
        safe_search |-> TRUE, use_puppeteer |-> TRUE]

\* the validation chain of GET /api/search
SearchGetValid(h) ==
  /\ h.q \notin {NoParam, ""}
  /\ h.engine = NoParam \/ h.engine \in FacadeAllowedEngines
  /\ OptionalIntIn(h.page, 1, 10)

\* searchOptions of GET /api/search; search() takes fallback = true
SearchOptions(h, p) ==
  [query |-> h.q,
   engine |-> IF h.engine # NoParam THEN h.engine
              ELSE IF FacadePreferences(p).default_search_engine # ""
                   THEN FacadePreferences(p).default_search_engine
                   ELSE "default",
   page |-> ParseIntOr(h.page, 1),
   safe |-> TRUE, fallback |-> TRUE, usePuppeteer |-> TRUE]

\* GET /api/search: 400, or searchService.search(q, searchOptions) up to the
\* first await of the search (the caches are empty before the first search)
RouteSearch ==
  /\ http.route = "GET /api/search" /\ pc = "idle" /\ nreq = 0
  /\ IF ~SearchGetValid(http)
     THEN /\ resp' = BadRequest
          /\ pc' = "done"
          /\ UNCHANGED <<boot, chrome, now, cache, pcache, history, req, fan, nreq, faults, book,
                         last, prefs, http, scache>>
     ELSE \/ RequestDefault(SearchOptions(http, prefs))
          \/ RequestPuppeteerAll(SearchOptions(http, prefs))
          \/ RequestPuppeteerSingle(SearchOptions(http, prefs))

\* the validation of the three preference routes
PreferencesValid(h) ==
  IF h.route = "PUT /api/search/preferences"
  THEN /\ h.engine = NoParam \/ h.engine \in FacadeAllowedEngines
       /\ OptionalIntIn(h.rpp, 5, 50)
  ELSE IF h.route = "POST /api/puppeteer/preferences"
  THEN h.engine = NoParam \/ h.engine \in PuppeteerAvailableEngines
  ELSE h.engine = NoParam \/ h.engine \in ScraperAvailableEngines

\* the row INSERT OR REPLACE writes in updateUserPreferences of the service
PreferencesRow(h) ==
  [stored |-> TRUE,
   default_search_engine |->
     IF h.engine # NoParam THEN h.engine
     ELSE IF h.route = "PUT /api/search/preferences" THEN "default" ELSE "all",
   results_per_page |-> ParseIntOr(h.rpp, 10),
   safe_search |-> TRUE, use_puppeteer |-> TRUE]

\* PUT /api/search/preferences, POST /api/puppeteer/preferences and
\* POST /api/scraper/preferences
RoutePreferences ==
  /\ http.route \in {"PUT /api/search/preferences", "POST /api/puppeteer/preferences",
                     "POST /api/scraper/preferences"}
  /\ pc = "idle"
  /\ pc' = "done"
  /\ IF PreferencesValid(http)
     THEN prefs' = PreferencesRow(http) /\ resp' = Updated
     ELSE prefs' = prefs /\ resp' = BadRequest
  /\ UNCHANGED <<boot, chrome, now, cache, pcache, history, req, fan, nreq, faults, book, last, http,
                 scache>>

\* the response of a preference update is sent; the next request may come
RouteSent ==
  /\ pc = "done" /\ nreq = 0 /\ resp.status = "updated"
  /\ pc' = "idle"
  /\ resp' = NoResp
  /\ http' = NoHttp
  /\ UNCHANGED <<boot, chrome, now, cache, pcache, history, req, fan, nreq, faults, book, last, prefs,
                 scache>>

\* `scraper:${engine}:${query}:${page}:${safe}`
ScraperCacheKey(engine, query, page, safe) ==
  "scraper:" \o engine \o ":" \o query \o ":" \o ToString(page) \o ":" \o BoolStr(safe)

\* the fan-outs of SearchScraperService.searchAllEngines: one outcome per
\* engine, the legs finishing in the order of the table
ScraperWorlds == [1..Len(scraperSearchEngines) -> LegacyOutcomes]

RECURSIVE ScraperPush(_, _, _)
ScraperPush(acc, world, k) ==
  IF k > Len(world) THEN acc
  ELSE ScraperPush(
         LegPush(acc, scraperSearchEngines[k],
                 IF world[k] = "page" THEN ScraperTransform(scraperSearchEngines[k])
                 ELSE <<>>),
         world, k + 1)

\* SearchScraperService.searchAllEngines(query, { page, safe, userIp })
ScraperSearchAllEnginesCall(c, table, query, page, safe, t) ==
  {LET acc == ScraperPush(EmptyAcc, world, 1)
       final == SliceAndRank(ScraperDeduplicateResults(acc.allResults), ScraperAllCap)
   IN  [threw |-> SaveRejects(h),
        results |-> IF SaveRejects(h) THEN <<>> ELSE final,
        scache |-> CacheSet(c, ScraperAllCacheKey(query, page, safe), final, t),
        history |-> saveSearchHistory(table, query, Len(final),
                                      BestEngine(acc.workingEngines, "unknown"), h),
        calls |-> FanOutCalls(scraperSearchEngines),
        tiers |-> {"scraper-all"}] :
   world \in ScraperWorlds, h \in HistoryOutcomes}

\* SearchScraperService.search(query, { engine, page, safe, userIp })
ScraperSearchCall(c, table, query, engine, page, safe, t) ==
  LET cacheKey == ScraperCacheKey(engine, query, page, safe)
      c1 == CacheAfterGet(c, cacheKey, t)
  IN IF CacheHas(c, cacheKey, t)
     THEN {[threw |-> SaveRejects(h),
            results |-> IF SaveRejects(h) THEN <<>> ELSE CacheGet(c, cacheKey),
            scache |-> c,
            history |-> saveSearchHistory(table, query, Len(CacheGet(c, cacheKey)),
                                          engine, h),
            calls |-> NoCalls, tiers |-> {}] :
           h \in HistoryOutcomes}
     ELSE IF engine = "all"
     THEN ScraperSearchAllEnginesCall(c1, table, query, page, safe, t)
     ELSE UNION {
            LET results == IF o = "page" THEN ScraperTransform(engine) ELSE <<>>
                c2 == CacheSet(c1, cacheKey, results, t)
                saved == saveSearchHistory(table, query, Len(results), engine, h)
            IN  IF SaveRejects(h)
                THEN {[r EXCEPT !.calls = AddCall(@, engine),
                                !.tiers = @ \cup {"scraper-single"}] :
                      r \in ScraperSearchAllEnginesCall(c2, saved, query, page, safe, t)}
                ELSE {[threw |-> FALSE, results |-> results, scache |-> c2,
                       history |-> saved,
                       calls |-> AddCall(NoCalls, engine),
                       tiers |-> {"scraper-single"}]} :
            o \in LegacyOutcomes, h \in HistoryOutcomes}

ServiceGets ==
  [route : {"GET /api/puppeteer/search", "GET /api/scraper/search"},
   q : {NoParam, "", "q"}, engine : {NoParam, "bing", "invalid"},
   page : {NoParam, "0", "-1", "11"}, rpp : {NoParam}, engines : {<<>>}]

\* the two routes without the check of the query
ServiceGetValidAnyQuery(h) ==
  h.engine = NoParam
  \/ h.engine \in (IF h.route = "GET /api/puppeteer/search"
                   THEN PuppeteerAvailableEngines ELSE ScraperAvailableEngines)

\* the checks of GET /api/puppeteer/search and GET /api/scraper/search
ServiceGetValid(h) ==
  /\ h.q \notin {NoParam, ""}
  /\ h.engine = NoParam
     \/ h.engine \in (IF h.route = "GET /api/puppeteer/search"
                      THEN PuppeteerAvailableEngines ELSE ScraperAvailableEngines)

\* the options the two routes pass to search(); fallback is the default
ServiceOptions(h) ==
  [query |-> h.q,
   engine |-> IF h.engine # NoParam THEN h.engine ELSE "all",
   page |-> ParseIntOr(h.page, 1),
   safe |-> TRUE, fallback |-> TRUE, usePuppeteer |-> FALSE]

\* the bookkeeping of a search that ran as one call
CallBook(x) == [NoBook EXCEPT !.calls = x.calls, !.tiers = x.tiers]

\* GET /api/puppeteer/search: 400, or the whole of
\* puppeteerSearchService.search(query, { engine, page, safe, userIp })
RoutePuppeteerSearch ==
  /\ http.route = "GET /api/puppeteer/search" /\ pc = "idle" /\ nreq = 0
  /\ pc' = "done"
  /\ IF ~ServiceGetValid(http)
     THEN /\ resp' = BadRequest
          /\ UNCHANGED <<pcache, history, req, nreq, faults, book>>
     ELSE LET r == ServiceOptions(http) IN
          \E x \in PuppeteerSearchCall(pcache, history, r.query, r.engine, r.page,
                                       r.safe, r.fallback, now, MaxFaults) :
            /\ req' = r
            /\ nreq' = 1
            /\ pcache' = x.pcache
            /\ history' = x.history
            /\ faults' = x.faults
            /\ book' = CallBook(x)
            /\ resp' = IF x.threw THEN Failed ELSE Ok(x.results)
  /\ UNCHANGED <<boot, chrome, now, cache, fan, last, prefs, http, scache>>

\* GET /api/scraper/search: 400, or the whole of
\* searchScraperService.search(query, { engine, page, safe, userIp })
RouteScraperSearch ==
  /\ http.route = "GET /api/scraper/search" /\ pc = "idle" /\ nreq = 0
  /\ pc' = "done"
  /\ IF ~ServiceGetValid(http)
     THEN /\ resp' = BadRequest
          /\ UNCHANGED <<boot, chrome, scache, history, req, nreq, book>>
     ELSE LET r == ServiceOptions(http) IN
          \E x \in ScraperSearchCall(scache, history, r.query, r.engine, r.page,
                                     r.safe, now) :
            /\ req' = r
            /\ nreq' = 1
            /\ scache' = x.scache
            /\ history' = x.history
            /\ book' = CallBook(x)
            /\ resp' = IF x.threw THEN Failed ELSE Ok(x.results)
  /\ UNCHANGED <<boot, now, cache, pcache, fan, faults, last, prefs, http, chrome>>

AdvancedAllowedEngines == {"google", "bing", "duckduckgo", "yahoo", "brave", "all"}

MaxAdvancedEngines == 4

MaxAdvancedPage == 5

AdvancedEngineLists ==
  {<<>>, <<"bing">>, <<"bing", "all">>, <<"bing", "bing">>, <<"bing", "invalid">>,
   <<"bing", "bing", "bing", "bing", "bing">>}

AdvancedPosts ==
  [route : {"POST /api/search/advanced"}, q : {NoParam, "", "q"}, engine : {NoParam},
   page : {NoParam, "10"}, rpp : {NoParam}, engines : AdvancedEngineLists]

\* the validators of POST /advanced without the check of the engine names
AdvancedValidAnyName(h) ==
  /\ h.q \notin {NoParam, ""}
  /\ Len(h.engines) \in 1..MaxAdvancedEngines
  /\ OptionalIntIn(h.page, 1, MaxAdvancedPage)

\* the validators of POST /advanced; an absent engines field fails isArray
\* like an empty array
AdvancedValid(h) ==
  /\ h.q \notin {NoParam, ""}
  /\ Len(h.engines) \in 1..MaxAdvancedEngines
  /\ \A i \in 1..Len(h.engines) : h.engines[i] \in AdvancedAllowedEngines
  /\ OptionalIntIn(h.page, 1, MaxAdvancedPage)

\* the options of the search dispatched for engines[k]
AdvancedOptions(h, k) ==
  [query |-> h.q, engine |-> h.engines[k], page |-> ParseIntOr(h.page, 1),
   safe |-> TRUE, fallback |-> TRUE, usePuppeteer |-> TRUE]

\* searchService.search(query, { engine, page, safe, userIp }) for an engine
\* of POST /advanced ('default' is not among them): the lookup in the
\* facade's cache, then searchWithPuppeteer
FacadeSearchCall(c, p, table, r, t, left) ==
  LET cacheKey == SearchCacheKey(r.engine, r.query, r.page, r.safe, r.usePuppeteer)
  IN IF CacheHas(c, cacheKey, t)
     THEN {[threw |-> SaveRejects(h),
            results |-> IF SaveRejects(h) THEN <<>> ELSE CacheGet(c, cacheKey),
            pcache |-> p,
            history |-> saveSearchHistory(table, r.query, Len(CacheGet(c, cacheKey)),
                                          r.engine, h),
            calls |-> NoCalls, tiers |-> {}, faults |-> Cost(h)] :
           h \in {x \in HistoryOutcomes : Cost(x) <= left}}
     ELSE {[threw |-> x.threw, results |-> x.results, pcache |-> x.pcache,
            history |-> x.history, calls |-> x.calls, tiers |-> x.tiers,
            faults |-> x.faults] :
           x \in PuppeteerSearchCall(p, table, r.query, r.engine, r.page, r.safe,
                                     r.fallback, t, left)}

\* the entries a search wrote, laid over the cache as the searches before it
\* left it
CacheMerge(c, before, after) ==
  [k \in DOMAIN c \cup DOMAIN after |->
     IF k \in DOMAIN after /\ (k \notin DOMAIN before \/ after[k] # before[k])
     THEN after[k] ELSE c[k]]

\* a leg of POST /advanced whose search rejects the promise of the leg
AdvancedLegUncaught(x) ==
  [out |-> "fulfilled", res |-> x.results, rejects |-> x.threw]

\* a leg of POST /advanced: try { results[engine] = await search(...) }
\* catch (error) { results[engine] = { error: error.message } }
AdvancedLeg(x) ==
  [out |-> IF x.threw THEN "error" ELSE "fulfilled",
   res |-> IF x.threw THEN <<>> ELSE x.results,
   rejects |-> FALSE]

\* the index of engine among the keys of the results object, 0 if absent
KeyIndex(keys, engine) ==
  IF \E i \in 1..Len(keys) : keys[i] = engine
  THEN CHOOSE i \in 1..Len(keys) : keys[i] = engine
  ELSE 0

\* results[engine] = ... : a new key is added after the others, an existing
\* key keeps its place and takes the new value
AdvancedPut(run, engine, leg) ==
  LET i == KeyIndex(run.keys, engine)
  IN IF i = 0
     THEN [run EXCEPT !.keys = Append(@, engine), !.out = Append(@, leg.out),
                      !.res = Append(@, leg.res)]
     ELSE [run EXCEPT !.out[i] = leg.out, !.res[i] = leg.res]

NoRun ==
  [results |-> <<>>, keys |-> <<>>, out |-> <<>>, res |-> <<>>, rejected |-> FALSE,
   pcache |-> pcache, history |-> history, calls |-> NoCalls, tiers |-> {},
   faults |-> 0]

\* engines.map(...) and Promise.all of POST /advanced: every search looks its
\* key up before any of them has stored anything; the searches complete in
\* the order of the array; an error stays in the entry of its engine
RECURSIVE AdvancedRuns(_, _, _)
AdvancedRuns(h, k, run) ==
  IF k > Len(h.engines) THEN {run}
  ELSE UNION {
         AdvancedRuns(h, k + 1,
           [AdvancedPut(run, h.engines[k], AdvancedLeg(x)) EXCEPT
              !.results = @ \o AdvancedLeg(x).res,
              !.rejected = @ \/ AdvancedLeg(x).rejects,
              !.pcache = CacheMerge(@, pcache, x.pcache),
              !.history = x.history,
              !.calls = AddCalls(@, x.calls),
              !.tiers = @ \cup x.tiers,
              !.faults = @ + x.faults]) :
         x \in FacadeSearchCall(cache, pcache, run.history, AdvancedOptions(h, k), now,
                                MaxFaults - run.faults)}

\* POST /api/search/advanced: 400, or one search per entry of engines; the
\* results object is kept in fan (its keys, and out and res of every key);
\* a rejected leg would reject Promise.all and reach the 500 of the handler
RouteAdvanced ==
  /\ http.route = "POST /api/search/advanced" /\ pc = "idle" /\ nreq = 0
  /\ pc' = "done"
  /\ IF ~AdvancedValid(http)
     THEN /\ resp' = BadRequest
          /\ UNCHANGED <<pcache, history, req, nreq, faults, book, fan>>
     ELSE \E run \in AdvancedRuns(http, 1, NoRun) :
            /\ req' = AdvancedOptions(http, 1)
            /\ nreq' = Len(http.engines)
            /\ pcache' = run.pcache
            /\ history' = run.history
            /\ faults' = run.faults
            /\ book' = CallBook(run)
            /\ fan' = [NoFan EXCEPT !.tier = "advanced", !.engines = run.keys,
                                    !.out = run.out, !.res = run.res]
            /\ resp' = IF run.rejected THEN Failed ELSE Ok(run.results)
  /\ UNCHANGED <<boot, chrome, now, cache, last, prefs, http, scache>>

RouteNext ==
  \/ \E h \in SearchGets : RouteReceive(h)
  \/ \E h \in PreferenceUpdates : RouteReceive(h)
  \/ \E h \in ServiceGets : RouteReceive(h)
  \/ \E h \in AdvancedPosts : RouteReceive(h)
  \/ RouteAdvanced
  \/ RouteSearch
  \/ RoutePuppeteerSearch
  \/ RouteScraperSearch
  \/ RoutePreferences
  \/ RouteSent
  \/ \E o \in PuppeteerOutcomes, h \in HistoryOutcomes : PuppeteerSingleSettle(o, h)
  \/ \E i \in 1..Len(defaultPuppeteerEngines) : DefaultLegSettle(i)
  \/ \E i \in 1..Len(puppeteerSearchEngines), o \in PuppeteerOutcomes :
       PuppeteerAllLegSettle(i, o)
  \/ \E h \in HistoryOutcomes : DefaultMerge(h)
  \/ \E h \in HistoryOutcomes : PuppeteerAllMerge(h)

RouteSpec == Init /\ [][RouteNext]_vars

(***************************************************************************)
(* The browser of PuppeteerSearchService: the legs of one searchAllEngines  *)
(* fan-out, each an async searchSingleEngine that stops at every await.     *)
(* chrome.browser is this.browser (0 for null), chrome.alive the browser    *)
(* processes running, chrome.pages the legs whose page is open; a leg is    *)
(* at "start", "launching" (inside puppeteer.launch), "newpage", "working", *)
(* "closing" (in the finally block) or "settled".                           *)
(***************************************************************************)
MaxBrowserLegs == 3

BrowserEngines == SubSeq(puppeteerSearchEngines, 1, MaxBrowserLegs)

BrowserRequest ==
  [query |-> "q", engine |-> "all", page |-> 1, safe |-> TRUE, fallback |-> TRUE,
   usePuppeteer |-> TRUE]

\* the service before the fan-out: no browser yet, or the browser an earlier
\* search has launched
BrowserInit ==
  /\ now = 0
  /\ cache = EmptyCache /\ pcache = EmptyCache /\ scache = EmptyCache
  /\ history = EmptyBag
  /\ pc = "fanout"
  /\ req = BrowserRequest
  /\ fan = [NoFan EXCEPT !.tier = "puppeteer-all", !.engines = BrowserEngines,
                         !.out = [i \in 1..MaxBrowserLegs |-> "pending"],
                         !.res = [i \in 1..MaxBrowserLegs |-> <<>>]]
  /\ resp = NoResp
  /\ nreq = 1
  /\ faults = 0
  /\ book = [NoBook EXCEPT !.tiers = {"puppeteer-all"}]
  /\ last = NoLast
  /\ prefs = NoPrefs
  /\ http = NoHttp
  /\ boot = Booted
  /\ \E b \in {0, 1} :
       chrome = [NoChrome EXCEPT
                   !.browser = b, !.launched = b,
                   !.alive = IF b = 0 THEN {} ELSE {b},
                   !.legs = [i \in 1..MaxBrowserLegs |->
                               [at |-> "start", uses |-> 0, got |-> "pending"]]]

LegAt(i, at) == ~chrome.closed /\ pc = "fanout" /\ chrome.legs[i].at = at

BrowserFrame ==
  UNCHANGED <<now, cache, pcache, scache, history, pc, req, resp, nreq, faults, book,
              last, prefs, http, boot>>

\* the leg settles with o: the body of the leg in searchAllEngines runs
LegSettles(i, o) ==
  fan' = [fan EXCEPT
            !.out[i] = o,
            !.res[i] = Enhance(SingleEngineResults(fan.engines[i], o), fan.engines[i]),
            !.acc = LegPush(@, fan.engines[i], SingleEngineResults(fan.engines[i], o))]

\* initBrowser up to its await: if (!this.browser) puppeteer.launch(...) is
\* called; otherwise this.browser is returned
LegInitBrowser(i) ==
  /\ LegAt(i, "start")
  /\ chrome' = IF chrome.browser = 0
               THEN [chrome EXCEPT !.legs[i].at = "launching"]
               ELSE [chrome EXCEPT !.legs[i].at = "newpage",
                                   !.legs[i].uses = chrome.browser]
  /\ UNCHANGED fan
  /\ BrowserFrame

\* puppeteer.launch resolves: this.browser = <the new browser>; return this.browser
LegLaunched(i) ==
  /\ LegAt(i, "launching")
  /\ LET b == chrome.launched + 1 IN
     chrome' = [chrome EXCEPT !.launched = b, !.alive = @ \cup {b}, !.browser = b,
                              !.legs[i].at = "newpage", !.legs[i].uses = b]
  /\ UNCHANGED fan
  /\ BrowserFrame

\* puppeteer.launch rejects: searchSingleEngine rejects before its try block
LegLaunchFails(i) ==
  /\ LegAt(i, "launching")
  /\ chrome' = [chrome EXCEPT !.legs[i].at = "settled", !.legs[i].got = "throw"]
  /\ LegSettles(i, "throw")
  /\ BrowserFrame

\* const pageInstance = await browser.newPage()
LegNewPage(i) ==
  /\ LegAt(i, "newpage")
  /\ chrome' = [chrome EXCEPT !.legs[i].at = "working", !.pages = @ \cup {i}]
  /\ UNCHANGED fan
  /\ BrowserFrame

\* browser.newPage() rejects: no page was opened, searchSingleEngine rejects
LegNewPageFails(i) ==
  /\ LegAt(i, "newpage")
  /\ chrome' = [chrome EXCEPT !.legs[i].at = "settled", !.legs[i].got = "throw"]
  /\ LegSettles(i, "throw")
  /\ BrowserFrame

\* the try block: goto, waitForSelector, evaluate; results are returned, or
\* the catch returns [] after a timeout or any other error
LegExtract(i, o) ==
  /\ LegAt(i, "working")
  /\ o \in {"error", "empty", "page"}
  /\ chrome' = [chrome EXCEPT !.legs[i].at = "closing", !.legs[i].got = o]
  /\ UNCHANGED fan
  /\ BrowserFrame

\* a leg that settles without its finally block
LegSkipClose(i) ==
  /\ LegAt(i, "closing")
  /\ chrome' = [chrome EXCEPT !.legs[i].at = "settled"]
  /\ LegSettles(i, chrome.legs[i].got)
  /\ BrowserFrame

\* finally { await pageInstance.close() }, then the leg settles
LegClosePage(i) ==
  /\ LegAt(i, "closing")
  /\ chrome' = [chrome EXCEPT !.legs[i].at = "settled", !.pages = @ \ {i}]
  /\ LegSettles(i, chrome.legs[i].got)
  /\ BrowserFrame

\* closeBrowser() of the shutdown handlers, then process.exit(0)
CloseBrowser ==
  /\ ~chrome.closed
  /\ chrome' = IF chrome.browser # 0
               THEN [chrome EXCEPT !.alive = @ \ {chrome.browser}, !.browser = 0,
                                   !.closed = TRUE]
               ELSE [chrome EXCEPT !.closed = TRUE]
  /\ UNCHANGED fan
  /\ BrowserFrame

\* the barrier and the rest of searchAllEngines
BrowserMerge(h) == ~chrome.closed /\ PuppeteerAllMerge(h)

BrowserNext ==
  \/ \E i \in 1..MaxBrowserLegs : LegInitBrowser(i)
  \/ \E i \in 1..MaxBrowserLegs : LegLaunched(i)
  \/ \E i \in 1..MaxBrowserLegs : LegLaunchFails(i)
  \/ \E i \in 1..MaxBrowserLegs : LegNewPage(i)
  \/ \E i \in 1..MaxBrowserLegs : LegNewPageFails(i)
  \/ \E i \in 1..MaxBrowserLegs, o \in LegacyOutcomes : LegExtract(i, o)
  \/ \E i \in 1..MaxBrowserLegs : LegClosePage(i)
  \/ CloseBrowser
  \/ \E h \in HistoryOutcomes : BrowserMerge(h)

BrowserSpec == BrowserInit /\ [][BrowserNext]_vars

(***************************************************************************)
(* The database module and startServer.  boot.db tells whether the module   *)
(* variable db holds a handle; boot.init is the promise of init(): "idle"   *)
(* before the call, "opening" until sqlite3 reports on the connection,      *)
(* "creating" while the CREATE TABLE statements run, then "resolved" or     *)
(* "rejected"; boot.got is what the latest call of getDb() did.             *)
(***************************************************************************)
NotBooted ==
  [db |-> FALSE, opened |-> FALSE, init |-> "idle",
   tables |-> [t \in TableNames |-> "pending"], completed |-> 0,
   server |-> "starting", got |-> "none"]

DbStart ==
  /\ now = 0
  /\ cache = EmptyCache /\ pcache = EmptyCache /\ scache = EmptyCache
  /\ history = EmptyBag
  /\ pc = "idle"
  /\ req = NoReq /\ fan = NoFan /\ resp = NoResp
  /\ nreq = 0 /\ faults = 0
  /\ book = NoBook /\ last = NoLast
  /\ prefs = NoPrefs /\ http = NoHttp
  /\ chrome = NoChrome
  /\ boot = NotBooted

DbFrame ==
  UNCHANGED <<now, cache, pcache, scache, history, pc, req, fan, resp, nreq, faults,
              book, last, prefs, http, chrome>>

Running == boot.server # "exited"

\* startServer calls database.init(): the executor of the promise assigns
\* db = new sqlite3.Database(dbPath, callback) at once
DbInit ==
  /\ Running /\ boot.init = "idle"
  /\ boot' = [boot EXCEPT !.db = TRUE, !.init = "opening"]
  /\ DbFrame

\* the callback of sqlite3.Database: reject(err), or PRAGMA and createTables()
DbOpened(ok) ==
  /\ Running /\ boot.init = "opening"
  /\ boot' = IF ok THEN [boot EXCEPT !.opened = TRUE, !.init = "creating"]
             ELSE [boot EXCEPT !.init = "rejected"]
  /\ DbFrame

\* the callback of db.run(table): reject(err), or completed++ and resolve()
\* when completed === total; settling a settled promise changes nothing
DbTable(t, ok) ==
  /\ Running /\ boot.opened /\ boot.tables[t] = "pending"
  /\ boot' = IF ok
             THEN [boot EXCEPT
                     !.tables[t] = "created",
                     !.completed = @ + 1,
                     !.init = IF boot.completed + 1 = Cardinality(TableNames)
                                 /\ boot.init = "creating"
                              THEN "resolved" ELSE @]
             ELSE [boot EXCEPT
                     !.tables[t] = "failed",
                     !.init = IF boot.init = "creating" THEN "rejected" ELSE @]
  /\ DbFrame

\* getDb(): throws 'Database not initialized' if (!db), else returns db
GetDb ==
  /\ Running
  /\ boot' = [boot EXCEPT !.got = IF boot.db THEN "handle" ELSE "throws"]
  /\ DbFrame

\* await database.init() has resolved: app.listen(PORT)
ServerListen ==
  /\ boot.server = "starting" /\ boot.init = "resolved"
  /\ boot' = [boot EXCEPT !.server = "listening"]
  /\ DbFrame

\* await database.init() has rejected: process.exit(1)
ServerExit ==
  /\ boot.server = "starting" /\ boot.init = "rejected"
  /\ boot' = [boot EXCEPT !.server = "exited"]
  /\ DbFrame

DbNext ==
  \/ DbInit
  \/ \E ok \in BOOLEAN : DbOpened(ok)
  \/ \E t \in TableNames, ok \in BOOLEAN : DbTable(t, ok)
  \/ GetDb
  \/ ServerListen
  \/ ServerExit

DbSpec == DbStart /\ [][DbNext]_vars

(***************************************************************************)
(* Vocabulary of the properties.                                            *)
(***************************************************************************)
AnyCall(c) == \E e \in ModelledEngines : c[e] > 0

LegFailed(o) == o \in {"throw", "error"}

LegSucceeded(o) == o \in {"empty", "page"}

BroaderTiers == {"default", "puppeteer-all", "legacy-all"}

FullSetTiers == {"puppeteer-all", "legacy-all"}

NamesOneEngine(r) == r.engine \notin {"default", "all", ""}

\* every provider call of the request failed: none answered, none was
\* spared by a cache
NoProviderReachable ==
  /\ ~book.hit
  /\ AnyCall(book.calls)
  /\ book.failed
  /\ ~book.answered

\* every provider of the tier that ended the request answered with no result
NothingFound ==
  \/ fan.tier = "none" /\ book.single = "empty"
  \/ fan.tier # "none" /\ \A i \in DOMAIN fan.out : fan.out[i] = "empty"

\* what the provider of leg i handed over, tagged with its engine
ProviderLeg(f, i) ==
  IF f.out[i] # "page" THEN <<>>
  ELSE IF f.tier = "legacy-all"
  THEN Enhance(LegacyScrape(f.engines[i], req.page), f.engines[i])
  ELSE Enhance(PuppeteerExtract(f.engines[i]), f.engines[i])

LegOrders(n) ==
  {ord \in [1..n -> 1..n] : \A i, j \in 1..n : ord[i] = ord[j] => i = j}

RECURSIVE ConcatLegs(_, _, _)
ConcatLegs(f, ord, k) ==
  IF k > Len(f.engines) THEN <<>>
  ELSE ProviderLeg(f, ord[k]) \o ConcatLegs(f, ord, k + 1)

\* dedup, cap and ranking of the tier
TierFinal(tier, all) ==
  IF tier = "puppeteer-all"
  THEN SliceAndRank(PuppeteerDeduplicateResults(all), PuppeteerAllCap)
  ELSE SliceAndRank(SearchDeduplicateResults(all), DefaultCap)

\* the merges of the successful legs alone, in whatever order
SuccessfulMerges(f) ==
  {TierFinal(f.tier, ConcatLegs(f, ord, 1)) : ord \in LegOrders(Len(f.engines))}

TierCap(tier) == IF tier = "puppeteer-all" THEN PuppeteerAllCap ELSE DefaultCap

Keys(results) == {DedupKey(results[k]) : k \in DOMAIN results}

(***************************************************************************)
(* Properties.                                                              *)
(***************************************************************************)
\* C1: when every provider leg of every tier the request attempted fails,
\* search fails (AllProvidersUnreachable); it does not answer with success.
C1_AllLegsFailedIsFailure ==
  (pc = "done" /\ NoProviderReachable) => resp.status = "error"

\* C2: in a multi-engine tier where at least one leg succeeds and the other
\* legs fail (and no history write fails), search succeeds and returns the
\* merge of the successful legs' results; the failed legs contribute nothing.
C2_PartialFailureMergesSuccessfulLegs ==
  (/\ pc = "done" /\ fan.tier # "none"
   /\ ~book.saveFailed
   /\ \A i \in DOMAIN fan.out : LegFailed(fan.out[i]) \/ LegSucceeded(fan.out[i])
   /\ \E i \in DOMAIN fan.out : fan.out[i] = "page"
   /\ \E i \in DOMAIN fan.out : LegFailed(fan.out[i]))
  => /\ resp.status = "ok"
     /\ resp.results \in SuccessfulMerges(fan)

\* C3: a fan-out tier is left (its merged list cached, its response handed
\* over) only after every leg has settled, and no result of a leg that
\* returned some is missing from the merge input or, short of the cap, from
\* the response.
C3_MergeWaitsForEveryLeg ==
  [][(pc = "fanout" /\ (pc' # "fanout" \/ cache' # cache
                        \/ (fan.tier = "puppeteer-all" /\ pcache' # pcache)))
     => /\ \A i \in DOMAIN fan.out :
             LegFailed(fan.out[i]) \/ LegSucceeded(fan.out[i])
             \/ fan.out[i] \in {"hit", "all"}
        /\ fan.tier # "default" =>
             \A i \in DOMAIN fan.res :
               SeqRange(fan.res[i]) \subseteq SeqRange(fan.acc.allResults)
        /\ resp'.status = "ok" =>
             \/ Len(resp'.results) = TierCap(fan.tier)
             \/ \A i \in DOMAIN fan.res : Keys(fan.res[i]) \subseteq Keys(resp'.results)
    ]_vars

\* C3 witness: a fan-out answered with results although one leg failed and
\* another one returned a page
C3_Witness ==
  /\ pc = "done" /\ fan.tier # "none"
  /\ resp.status = "ok" /\ Len(resp.results) > 0
  /\ \E i, j \in DOMAIN fan.out :
       /\ LegFailed(fan.out[i])
       /\ fan.out[j] = "page"
       /\ Keys(fan.res[j]) \subseteq Keys(resp.results)

\* C4: the merged results of a fan-out are those of the legs taken in the
\* order the providers were submitted, whatever order the legs finished in.
C4_MergeInSubmissionOrder ==
  (pc = "done" /\ fan.tier # "none" /\ resp.status = "ok")
  => resp.results = TierFinal(fan.tier, CombineFulfilled(fan, 1).allResults)

\* C5: with fallback enabled, when the requested engine's tier fails or
\* returns no result, search goes on to a broader tier before it responds.
C5_EmptyOrFailedTierFallsBack ==
  (/\ pc = "done" /\ req.fallback
   /\ book.single \in {"throw", "error", "empty"})
  => book.tiers \cap BroaderTiers # {}

\* C6: with fallback disabled, a request naming one engine never has any
\* other engine or tier invoked, and the failure of its tier is surfaced.
C6_NoFallbackWhenDisabled ==
  (pc # "idle" /\ ~req.fallback /\ NamesOneEngine(req))
  => /\ \A e \in ModelledEngines \ {req.engine} : book.calls[e] = 0
     /\ book.tiers \cap BroaderTiers = {}
     /\ (pc = "done" /\ LegFailed(book.single)) => resp.status = "error"

\* C7: with fallback enabled, when the curated tier yields nothing because
\* its legs fail, the full-set tier is attempted before search responds.
C7_CuratedFailureEscalates ==
  (/\ pc = "done" /\ req.fallback
   /\ fan.tier = "default"
   /\ \A i \in DOMAIN fan.out : LegFailed(fan.out[i]) /\ fan.res[i] = <<>>)
  => book.tiers \cap FullSetTiers # {}

\* C8: when the providers of the last tier answered and found nothing,
\* search succeeds with the empty list, and that response is not the one
\* given when no provider could be reached.
C8_EmptySuccessIsNotUnreachable ==
  pc = "done" =>
    /\ (NothingFound /\ ~book.saveFailed) => resp = Ok(<<>>)
    /\ NoProviderReachable => resp # Ok(<<>>)

\* C9: an error while persisting the history record changes nothing: search
\* does not fail and no fallback is taken because of it.
C9_HistoryErrorIsSwallowed ==
  book.saveFailed => (resp.status # "error" /\ ~book.saveFellBack)

\* C10: after a miss that search answered successfully, the same request
\* repeated within the TTL is a cache hit and invokes no provider.
C10_RepeatIsCacheHit ==
  (/\ pc # "idle" /\ req = last.req
   /\ last.status = "ok" /\ ~last.hit /\ ~last.cleared
   /\ now - last.time < StdTTL)
  => /\ ~AnyCall(book.calls)
     /\ pc = "done" => book.hit

\* the cache entry a request that hits is served from
ServedEntry(r) ==
  IF CacheHas(cache, RequestKey(r), now)
  THEN cache[RequestKey(r)]
  ELSE pcache[PuppeteerRequestKey(r)]

\* C11: on a cache hit search invokes no provider, returns exactly the
\* cached value, and one history record is written for the request.
C11_HitReturnsCachedAndLogs ==
  [][(pc = "idle" /\ pc' = "done" /\ book'.hit)
     => /\ ~AnyCall(book'.calls)
        /\ resp' = Ok(ServedEntry(req').v)
        /\ BagCardinality(history') = BagCardinality(history) + 1
    ]_vars

\* C12: a lookup of a key stored at time T returns the stored value
\* unchanged before T + 300 s and is a miss at or after T + 300 s (the
\* entry's expiry time is T + StdTTL).
C12_EntryLivesUntilTTL ==
  [][(pc = "idle" /\ pc' # "idle" /\ RequestKey(req') \in DOMAIN cache)
     => LET k == RequestKey(req')
            served == pc' = "done" /\ book'.hit /\ k \in DOMAIN cache'
        IN /\ now < cache[k].t =>
                /\ served
                /\ resp'.status = "ok" => resp'.results = cache[k].v
           /\ now >= cache[k].t => ~served
    ]_vars

\* C13: after clearCache() has returned, the next search is a cache miss:
\* nothing it returns was served by a cache, and a successful response
\* comes from provider calls made for it.
C13_ClearCacheEvictsEverything ==
  (pc = "done" /\ last.cleared)
  => /\ ~book.hit
     /\ resp.status = "ok" => AnyCall(book.calls)

\* every entry of c a lookup at time t would return is in d with its value
Preserved(c, d, t) ==
  \A k \in DOMAIN c : ~Expired(c[k], t) => (k \in DOMAIN d /\ d[k].v = c[k].v)

\* C14: a provider failure or a failing search never evicts or changes a
\* cache entry: every live entry is still there with its value after any
\* step of a request in which a provider or the search failed.
C14_FailureLeavesCacheAlone ==
  [][(faults' > faults \/ (pc # "idle" /\ book.failed))
     => /\ Preserved(cache, cache', now)
        /\ Preserved(pcache, pcache', now)
    ]_vars

\* C15: a cache hit returns a value computed for the same engine selector,
\* query, page, safe flag and method as the request that hits.
C15_HitIsForSameSearch ==
  (pc = "done" /\ book.hit) => resp.results = Computed(req)

\* C16: every response of search has the ranks 1..N for its N results.
C16_RanksAreDense ==
  (pc = "done" /\ resp.status = "ok")
  => {resp.results[i].rank : i \in DOMAIN resp.results} = 1..Len(resp.results)

\* Case- and whitespace-insensitive normalisation of the strings that occur
\* in the modelled provider pages (the urls are lower case already).
Normalize(s) ==
  CASE s = "A" -> "a"
    [] s = "B" -> "b"
    [] s = "C" -> "c"
    [] OTHER -> s

\* The identity key of a result: normalised url and normalised title.
IdentityKey(r) == <<Normalize(r.url), Normalize(r.title)>>

\* C17: no response of search holds two results with the same identity key.
C17_NoSharedIdentityKey ==
  (pc = "done" /\ resp.status = "ok")
  => \A i, j \in DOMAIN resp.results :
       IdentityKey(resp.results[i]) = IdentityKey(resp.results[j]) => i = j

\* C18: of the raw results that share an identity key exactly the earliest
\* one of the input is in the output of deduplicateResults, whatever its
\* snippet and engine.
C18_FirstOccurrenceWins ==
  pc = "done"
  => \A i \in DOMAIN fan.acc.allResults :
       LET in == fan.acc.allResults
           earliest == \A j \in 1..(i - 1) : IdentityKey(in[j]) # IdentityKey(in[i])
           kept == {k \in DOMAIN resp.results :
                      IdentityKey(resp.results[k]) = IdentityKey(in[i])}
       IN  /\ Cardinality(kept) = 1
           /\ earliest => \E k \in kept : resp.results[k] = in[i]

\* C19: the output of deduplicateResults is ordered by snippet class
\* (longer than 20 characters first), then by ascending engine priority with
\* the engines absent from the table behind every engine of the table, then
\* by ascending original_rank.
C19_SortPrecedence ==
  pc = "done"
  => LET table == PriorityTableOf(fan.tier)
     IN  /\ \A e \in DOMAIN table.map : table.map[e] < table.unknown
         /\ \A i, j \in DOMAIN resp.results :
              i < j =>
                LET a == resp.results[i]
                    b == resp.results[j]
                    sameClass == (Len(a.snippet) > 20) = (Len(b.snippet) > 20)
                    pa == PriorityOf(table, a.engine)
                    pb == PriorityOf(table, b.engine)
                IN  /\ Len(b.snippet) > 20 => Len(a.snippet) > 20
                    /\ sameClass => pa <= pb
                    /\ (sameClass /\ pa = pb) => a.original_rank <= b.original_rank

\* An output where a result of a table engine with the larger original_rank
\* stands before a result of the same snippet class from an engine absent
\* from the table, and a long snippet of a low-priority engine stands first.
C19_Witness ==
  /\ pc = "done"
  /\ Len(resp.results) = 3
  /\ LET table == PriorityTableOf(fan.tier)
         r == resp.results
     IN  /\ Len(r[1].snippet) > 20 /\ Len(r[2].snippet) <= 20 /\ Len(r[3].snippet) <= 20
         /\ PriorityOf(table, r[1].engine) > PriorityOf(table, r[2].engine)
         /\ r[2].engine \in DOMAIN table.map /\ r[3].engine \notin DOMAIN table.map
         /\ r[2].original_rank > r[3].original_rank
         /\ fan.acc.allResults = <<r[3], r[2], r[1]>>

\* C20: deduplicateResults applied to its own output returns that output.
C20_DeduplicateIsIdempotent ==
  pc = "stored" => resp.results = fan.res[1]

\* The function was applied twice to an input which it reordered and whose
\* output holds two results that compare equal.
C20_Witness ==
  /\ pc = "stored"
  /\ fan.res[1] # fan.acc.allResults
  /\ Len(fan.res[1]) = Len(fan.acc.allResults)
  /\ \E i, j \in DOMAIN resp.results :
       i < j /\ Compare(resp.results[i], resp.results[j], PriorityTableOf(fan.tier)) = 0

\* C21: a curated-set response has at most 15 results, a full-set response
\* is cut at 20 and only at 20, a single-engine response is not cut, and the
\* results kept are the first ones of the sorted order.
C21_CapsByTier ==
  pc = "done"
  => LET sorted == IF fan.tier = "single" THEN fan.acc.allResults
                   ELSE IF fan.tier = "puppeteer-all"
                        THEN PuppeteerDeduplicateResults(fan.acc.allResults)
                        ELSE SearchDeduplicateResults(fan.acc.allResults)
         n == Len(resp.results)
     IN  /\ fan.tier = "default" => n <= 15
         /\ fan.tier \in FullSetTiers => n = (IF Len(sorted) < 20 THEN Len(sorted) ELSE 20)
         /\ fan.tier = "single" => n = Len(sorted)
         /\ n <= Len(sorted)
         /\ \A i \in 1..n : [resp.results[i] EXCEPT !.rank = 0] = [sorted[i] EXCEPT !.rank = 0]

\* C22: one top-level search calls each provider at most once: no retry and
\* no fan-out started from inside a leg.
C22_ProviderCalledAtMostOnce ==
  \A e \in ModelledEngines : book.calls[e] <= 1

ServiceTouched ==
  nreq > 0 \/ AnyCall(book.calls) \/ history # EmptyBag \/ book.tiers # {}

\* the engine selector the search runs with is a known engine name or an
\* aggregate selector
KnownSelector(e) == e \in FacadeAllowedEngines

\* C24: a search whose engine selector, from the request or from the stored
\* preferences, is not a known engine or an aggregate selector is answered
\* 400 and reaches no cache, provider or history table.
C24_UnknownEngineIsRejected ==
  (http.route = "GET /api/search" /\ pc # "idle"
   /\ ~KnownSelector(IF http.engine # NoParam THEN http.engine
                     ELSE FacadePreferences(prefs).default_search_engine))
  => (resp.status = "400" /\ ~ServiceTouched)

\* C25: a search reaches the service only with an integer page of 1..10; a
\* request with any other page is answered 400 and reaches no service.
C25_PageIsValidated ==
  /\ nreq > 0 => req.page \in 1..10
  /\ (http.route \in {"GET /api/search", "GET /api/puppeteer/search",
                      "GET /api/scraper/search"}
      /\ pc = "done" /\ ~OptionalIntIn(http.page, 1, 10))
     => (resp.status = "400" /\ ~ServiceTouched)

\* the endpoints that run a search
SearchRoutes ==
  {"GET /api/search", "POST /api/search/advanced", "GET /api/puppeteer/search",
   "GET /api/scraper/search"}

\* nothing of the three services has been reached
Untouched ==
  /\ ~ServiceTouched
  /\ cache = EmptyCache /\ pcache = EmptyCache /\ scache = EmptyCache

\* C26: the query of a search that reached a service is never empty; on each
\* search endpoint a request without a query, or with an empty one, is
\* answered 400 with no cache, provider or history table reached.
C26_EmptyQueryIsRejected ==
  /\ nreq > 0 => req.query \notin {"", NoParam}
  /\ (http.route \in SearchRoutes /\ pc # "idle" /\ http.q \in {NoParam, ""})
     => (resp = BadRequest /\ Untouched)

C26_Witness ==
  /\ http.route = "GET /api/puppeteer/search" /\ http.q = "" /\ http.engine = "bing"
  /\ pc = "done" /\ resp = BadRequest /\ Untouched

\* a search has been dispatched
Dispatched == nreq > 0 \/ AnyCall(book.calls) \/ book.tiers # {}

\* the body POST /advanced asks for: a non-empty query and 1 to 4 engines,
\* all of them allowed names
AdvancedBodyOk(h) ==
  /\ h.q \notin {NoParam, ""}
  /\ Len(h.engines) >= 1 /\ Len(h.engines) <= 4
  /\ \A i \in 1..Len(h.engines) :
       h.engines[i] \in {"google", "bing", "duckduckgo", "yahoo", "brave", "all"}

\* C27: POST /api/search/advanced dispatches a search only for a body with a
\* non-empty query and 1..4 engines that are all allowed names; any other
\* body is answered 400 and nothing is dispatched.
C27_AdvancedDispatchesOnlyValidBodies ==
  (http.route = "POST /api/search/advanced" /\ pc # "idle")
  => IF AdvancedBodyOk(http) THEN TRUE ELSE resp = BadRequest /\ ~Dispatched /\ Untouched

C27_Witness ==
  /\ http.route = "POST /api/search/advanced" /\ http.q = "q"
  /\ http.engines = <<"bing", "invalid">> /\ pc = "done" /\ resp = BadRequest
  /\ ~Dispatched

\* the endpoints that update the stored preferences
PreferenceRoutes ==
  {"PUT /api/search/preferences", "POST /api/puppeteer/preferences",
   "POST /api/scraper/preferences"}

\* the engines the endpoint of the update allows
AllowedFor(route) ==
  CASE route = "POST /api/puppeteer/preferences" -> PuppeteerAvailableEngines
    [] route = "POST /api/scraper/preferences" -> ScraperAvailableEngines
    [] OTHER -> FacadeAllowedEngines

\* the update names an allowed engine, if any, and a page size of 5..50, if any
UpdateAllowed(h) ==
  /\ h.engine = NoParam \/ h.engine \in AllowedFor(h.route)
  /\ OptionalIntIn(h.rpp, 5, 50)

\* C28: a preferences update whose default_search_engine is not an allowed
\* engine, or whose results_per_page is outside 5..50, is answered 400 and
\* the stored preferences stay as they were.
C28_InvalidUpdateIsRejected ==
  [][(http.route \in PreferenceRoutes /\ pc = "idle" /\ pc' = "done"
      /\ ~UpdateAllowed(http))
     => (resp' = BadRequest /\ prefs' = prefs)]_vars

\* the result carries an engine field, and the provider it names served the
\* document of the result
NamesProducer(r) ==
  /\ r.engine \in ModelledEngines
  /\ MkDoc(r.title, r.url, r.snippet) \in SeqRange(ProviderPage(r.engine))

\* C29: every result of every search response carries an engine field that
\* names the provider which produced the result, in single-engine responses
\* and in aggregates whose legs fell back to another tier.
C29_EngineFieldNamesProducer ==
  (pc = "done" /\ resp.status = "ok")
  => \A i \in 1..Len(resp.results) : NamesProducer(resp.results[i])

\* the legacy scraping method has been attempted for the request
LegacyAttempted == book.tiers \cap {"legacy-single", "legacy-all"} # {}

\* C30: a request to the facade that takes the Puppeteer method ends in an
\* error only after the legacy scraping method has been attempted as well.
C30_LegacyIsTriedBeforeError ==
  (pc = "done" /\ resp.status = "error" /\ req.usePuppeteer) => LegacyAttempted

\* the workingEngines list of the fan-out, as its tier builds it
WorkingEnginesOf(f) ==
  IF f.tier = "default" THEN CombineFulfilled(f, 1).workingEngines
  ELSE f.acc.workingEngines

\* the engines of the fan-out whose leg returned results, in the order in
\* which the engines were submitted
SucceededInSubmissionOrder(f) ==
  LET idx == SelectSeq([i \in 1..Len(f.engines) |-> i], LAMBDA i : Len(f.res[i]) > 0)
  IN  [k \in 1..Len(idx) |-> f.engines[idx[k]]]

\* C31: once every leg of a fan-out has settled, workingEngines lists exactly
\* the engines whose leg succeeded, in the order of submission, whatever the
\* order in which the legs completed.
C31_WorkingEnginesInSubmissionOrder ==
  (pc \in {"fanout", "done"} /\ fan.tier # "none" /\ AllSettled(fan))
  => WorkingEnginesOf(fan) = SucceededInSubmissionOrder(fan)

\* the entries of the results object that are error objects
ErrorEntries(f) == {k \in 1..Len(f.out) : f.out[k] = "error"}

\* C32: a valid advanced search is answered 200 with one entry for every
\* requested engine; the entry of an engine whose search failed is an error
\* object without results, the other entries are results, and an error entry
\* appears only when a search met a failure.
C32_AdvancedLegsAreIsolated ==
  (http.route = "POST /api/search/advanced" /\ pc = "done" /\ resp # BadRequest)
  => /\ resp.status = "ok"
     /\ SeqRange(fan.engines) = SeqRange(http.engines)
     /\ \A j, k \in 1..Len(fan.engines) : fan.engines[j] = fan.engines[k] => j = k
     /\ \A k \in ErrorEntries(fan) : fan.res[k] = <<>>
     /\ Cardinality(ErrorEntries(fan)) <= faults

C32_Witness ==
  /\ http.route = "POST /api/search/advanced" /\ http.engines = <<"bing", "all">>
  /\ pc = "done" /\ resp.status = "ok"
  /\ fan.engines = <<"bing", "all">>
  /\ fan.out[1] = "error" /\ fan.out[2] = "fulfilled" /\ Len(fan.res[2]) > 0

\* the rows of search_history
HistoryRows == BagCardinality(history)

\* C33: a search request that returns successfully has written exactly one
\* history record, whatever tier served it; stated for the first request of
\* a behaviour, which starts with an empty table.
C33_OneHistoryRowPerRequest ==
  (pc = "done" /\ nreq = 1 /\ resp.status = "ok") => HistoryRows = 1

\* the cache holds an empty result set
HoldsEmpty(c) == \E k \in DOMAIN c : c[k].v = <<>>

\* every provider the request called has failed
EveryProviderFailed == AnyCall(book.calls) /\ ~book.answered

\* C34: a result set produced while every provider leg failed is not written
\* to a cache; stated for the first request of a behaviour, which starts
\* with empty caches.
C34_FailuresAreNotCached ==
  (pc = "done" /\ nreq = 1 /\ ~book.hit /\ EveryProviderFailed)
  => (~HoldsEmpty(cache) /\ ~HoldsEmpty(pcache))

\* C35: at most one browser is launched and alive per service: legs that
\* call initBrowser() while no browser exists launch it once, and every leg
\* uses that instance until closeBrowser().
C35_OneBrowser ==
  /\ Cardinality(chrome.alive) <= 1
  /\ chrome.launched <= 1
  /\ \A i \in DOMAIN chrome.legs :
       (~chrome.closed /\ chrome.legs[i].uses # 0) => chrome.legs[i].uses = chrome.browser

\* C36: the page a leg opened is closed before the leg settles, whatever the
\* leg met, and no page is open once the search has returned.
C36_PagesAreClosed ==
  /\ \A i \in DOMAIN chrome.legs : chrome.legs[i].at = "settled" => i \notin chrome.pages
  /\ pc = "done" => chrome.pages = {}

C36_Witness ==
  /\ pc = "done" /\ chrome.pages = {} /\ fan.tier = "puppeteer-all"
  /\ \E i, j, k \in DOMAIN chrome.legs :
       /\ chrome.legs[i].got = "page" /\ chrome.legs[j].got = "error"
       /\ chrome.legs[k].got = "empty"

\* C37: an accepted preferences update of a client that has a stored row
\* changes only the fields it supplies; default engine and results per page,
\* when absent from the update, and safe search and use_puppeteer, which no
\* update of the model supplies, keep their stored values.
C37_PartialUpdateKeepsOtherFields ==
  [][(http.route \in PreferenceRoutes /\ pc = "idle" /\ pc' = "done"
      /\ resp' = Updated /\ prefs.stored)
     => /\ http.engine = NoParam
           => prefs'.default_search_engine = prefs.default_search_engine
        /\ http.rpp = NoParam => prefs'.results_per_page = prefs.results_per_page
        /\ prefs'.safe_search = prefs.safe_search
        /\ prefs'.use_puppeteer = prefs.use_puppeteer]_vars

\* C38: getDb() hands out the handle only once init() has resolved, with the
\* connection open and the three tables created, and does so from then on;
\* the server listens only after init() has resolved and the process exits
\* only after init() has failed.
C38_NoHandleBeforeInit ==
  /\ boot.got = "handle" => boot.init = "resolved"
  /\ boot.init = "resolved"
     => (boot.db /\ boot.opened /\ \A t \in TableNames : boot.tables[t] = "created")
  /\ boot.server = "listening" => boot.init = "resolved"
  /\ boot.server = "exited" => boot.init = "rejected"

====
